---- MODULE Spec2Model ----
(***************************************************************************)
(* Verification model of the multi-tenant caching platform                 *)
(* (caching_platform/core/cache_manager.py and its collaborators).         *)
(*                                                                         *)
(* Strings that the program concatenates or pattern-matches (tenant ids,   *)
(* user keys, storage keys, KEYS patterns) are sequences of one-character  *)
(* strings.  Memory is counted in bytes: the program's memory_used_mb is   *)
(* bytes / (1024 * 1024), a division by a power of two that is exact in    *)
(* floating point for the sizes used here.  Time is counted in ticks,      *)
(* TicksPerSecond of them to the second.                                   *)
(***************************************************************************)
EXTENDS Integers, Sequences, FiniteSets, TLC

VARIABLES
    tenants,             \* MultiTenantCacheManager.tenants
    tenant_metrics,      \* MultiTenantCacheManager.tenant_metrics
    tenant_connections,  \* MultiTenantCacheManager.tenant_connections
    rate_limiters,       \* MultiTenantCacheManager.rate_limiters
    redis,               \* the key space behind redis_client
    now,                 \* time.time() and the Redis clock, in ticks
    last,                \* the call that completed last, with what it returned
    written,             \* history: value of the last successful set per (tenant, key)
    steps,               \* history: number of calls and ticks so far
    backup,              \* the snapshot backup_tenant_data returned last
    in_flight,           \* the coroutines suspended at an await, with their locals
    orchestrator,        \* CacheOrchestrator: running, agents, agent_tasks, loop tasks
    nodes,               \* LoadBalancer.nodes
    node_health,         \* LoadBalancer.node_health, in insertion order
    request_counters,    \* LoadBalancer.request_counters
    response_times,      \* LoadBalancer.response_times
    algorithm,           \* LoadBalancer.algorithm
    current_node_index,  \* LoadBalancer.current_node_index
    lb_last,             \* the load balancer call that completed last, with its result
    routed,              \* history: routes given since the healthy nodes last changed
    current_nodes,       \* AutoScaler.current_nodes
    last_scale_up,       \* AutoScaler.last_scale_up
    last_scale_down,     \* AutoScaler.last_scale_down
    scaling_decisions,   \* AutoScaler.scaling_decisions
    scaling_config,      \* AutoScaler.scaling_config: min_nodes and max_nodes
    wall_clock,          \* time.time() as the auto-scaler reads it, in seconds
    scaler_last,         \* the auto-scaler call that completed last, with its result
    alerts,              \* HealthMonitor.alerts
    system_health,       \* HealthMonitor.system_health, the status per component
    performance_metrics, \* HealthMonitor.performance_metrics
    monitor_last         \* the health monitor call that completed last, with its result

cache_vars == <<tenants, tenant_metrics, tenant_connections, rate_limiters, redis,
                now, last, written, steps>>

lb_vars == <<nodes, node_health, request_counters, response_times, algorithm,
             current_node_index, lb_last, routed>>

scaler_vars == <<current_nodes, last_scale_up, last_scale_down, scaling_decisions, scaling_config,
                 wall_clock, scaler_last>>

monitor_vars == <<alerts, system_health, performance_metrics, monitor_last>>

vars == <<cache_vars, backup, in_flight, orchestrator, lb_vars, scaler_vars, monitor_vars>>

----------------------------------------------------------------------------
(* Bounds of the model *)

MaxSteps == 3
TicksPerSecond == 2
MaxHeld == 13        \* connections a caller population holds on one node
MaxRecorded == 1     \* requests recorded per node
MaxCalls == 4        \* calls in a routing history
MaxScalingSteps == 5 \* scaling calls and clock advances in a run
MaxMonitorSteps == 4 \* health monitor calls and clock advances in a run
MaxSelectionSteps == 5 \* calls in a run of node selection by connections
MaxStarts == 2       \* calls of the orchestrator's start in a run

(* Program constants *)

MemoryLimitMin == 64
MemoryLimitMax == 8192
MB == 1048576
MinIdLen == 3

----------------------------------------------------------------------------
(* Strings *)

IdAbc == <<"a", "b", "c">>
IdAbcUpper == <<"A", "b", "c">>
IdAbcEscD == <<"a", "b", "c", ":", "\\", "d">>
IdShort == <<"a", "b">>

KeyK == <<"k">>
KeyEscDK == <<"\\", "d", ":", "k">>

TenantIds == {IdAbc, IdAbcEscD}
TenantIdInputs == {IdAbcUpper, IdShort}
Keys == {KeyK, KeyEscDK}

\* str.lower(), on the letters the ids are written with
LowerChar(c) == IF c = "A" THEN "a" ELSE c
Lower(s) == [i \in 1..Len(s) |-> LowerChar(s[i])]

CachePrefix == <<"c", "a", "c", "h", "e", ":">>
TenantPrefix == <<"t", "e", "n", "a", "n", "t", ":">>

\* f"cache:{tenant_id}:{key}"
_get_cache_key(tenant_id, key) == CachePrefix \o tenant_id \o <<":">> \o key

\* f"tenant:{tenant.id}"
TenantKey(tenant_id) == TenantPrefix \o tenant_id

\* f"cache:{tenant_id}:*"
TenantNamespace(tenant_id) == CachePrefix \o tenant_id \o <<":", "*">>

\* Redis glob matching of KEYS: * matches any run of characters, ? one
\* character, a backslash takes the next pattern character literally.
RECURSIVE GlobMatch(_, _)
GlobMatch(p, s) ==
    IF p = <<>> THEN s = <<>>
    ELSE IF Head(p) = "*"
         THEN \E n \in 0..Len(s) : GlobMatch(Tail(p), SubSeq(s, n + 1, Len(s)))
    ELSE IF s = <<>> THEN FALSE
    ELSE IF Head(p) = "?" THEN GlobMatch(Tail(p), Tail(s))
    ELSE IF Head(p) = "\\" /\ Len(p) >= 2
         THEN Head(Tail(p)) = Head(s) /\ GlobMatch(Tail(Tail(p)), Tail(s))
    ELSE Head(p) = Head(s) /\ GlobMatch(Tail(p), Tail(s))

IsPrefix(p, s) == Len(p) <= Len(s) /\ SubSeq(s, 1, Len(p)) = p

----------------------------------------------------------------------------
(* Python values and their JSON encoding *)

PyNone == [type |-> "none", str |-> "", num |-> 0, chars |-> 0]
PyStr(s, n) == [type |-> "str", str |-> s, num |-> 0, chars |-> n]
PyInt(i) == [type |-> "int", str |-> "", num |-> i, chars |-> 0]
PyTuple(s, n) == [type |-> "tuple", str |-> s, num |-> 0, chars |-> n]
PyList(s, n) == [type |-> "list", str |-> s, num |-> 0, chars |-> n]

BigChars == 40 * MB
VBig == PyStr("big", BigChars)
VTuple == PyTuple("1, 2", 4)

Values == {VTuple, VBig}

\* number of characters of the decimal text of an integer
RECURSIVE Digits(_)
Digits(n) == IF n < 0 THEN 1 + Digits(0 - n)
             ELSE IF n < 10 THEN 1 ELSE 1 + Digits(n \div 10)

\* json.dumps(value): the text handed to Redis, with its length in bytes
json_dumps(v) ==
    CASE v.type = "str" -> [json |-> "string", str |-> v.str, num |-> 0, bytes |-> v.chars + 2]
      [] v.type = "int" -> [json |-> "number", str |-> "", num |-> v.num, bytes |-> Digits(v.num)]
      [] v.type \in {"tuple", "list"} ->
             [json |-> "array", str |-> v.str, num |-> 0, bytes |-> v.chars + 2]
      [] OTHER -> [json |-> "null", str |-> "", num |-> 0, bytes |-> 4]

\* json.loads(text)
json_loads(e) ==
    CASE e.json = "string" -> PyStr(e.str, e.bytes - 2)
      [] e.json = "number" -> PyInt(e.num)
      [] e.json = "array" -> PyList(e.str, e.bytes - 2)
      [] OTHER -> PyNone

\* the decimal text INCRBY / DECRBY leave in a key
RedisInt(n) == [json |-> "number", str |-> "", num |-> n, bytes |-> Digits(n)]

----------------------------------------------------------------------------
(* The Redis key space *)

NoExpiry == 0 - 1

Entry(data, expire_at) == [value |-> data, expire_at |-> expire_at]

redis_set(store, key, data) ==
    [k \in DOMAIN store \cup {key} |-> IF k = key THEN Entry(data, NoExpiry) ELSE store[k]]

redis_setex(store, key, ttl, data) ==
    [k \in DOMAIN store \cup {key} |->
        IF k = key THEN Entry(data, now + ttl * TicksPerSecond) ELSE store[k]]

redis_delete(store, keys) == [k \in DOMAIN store \ keys |-> store[k]]

redis_keys(store, pattern) == {k \in DOMAIN store : GlobMatch(pattern, k)}

\* an MSET that writes one of the pairs only
redis_mset_one(store, data) ==
    LET one == CHOOSE k \in DOMAIN data : TRUE
    IN  [k \in DOMAIN store \cup {one} |->
            IF k = one THEN Entry(data[k], NoExpiry) ELSE store[k]]

\* MSET writes every pair in one command and clears their expiry
redis_mset(store, data) ==
    [k \in DOMAIN store \cup DOMAIN data |->
        IF k \in DOMAIN data THEN Entry(data[k], NoExpiry) ELSE store[k]]

\* keys whose time to live has run out are gone
Expire(store, t) ==
    [k \in {j \in DOMAIN store : store[j].expire_at = NoExpiry \/ store[j].expire_at > t}
        |-> store[k]]

\* EXISTS: the number of the keys named that exist
redis_exists(store, key) == IF key \in DOMAIN store THEN 1 ELSE 0

\* EXPIRE: an existing key gets a new time to live
redis_expire(store, key, ttl) ==
    IF key \in DOMAIN store
    THEN [store EXCEPT ![key].expire_at = now + ttl * TicksPerSecond]
    ELSE store

\* TTL: -2 for a missing key, -1 for a key without expiry, otherwise the
\* remaining time rounded to the nearest second
redis_ttl(store, key) ==
    IF key \notin DOMAIN store THEN 0 - 2
    ELSE IF store[key].expire_at = NoExpiry THEN 0 - 1
    ELSE (2 * (store[key].expire_at - now) + TicksPerSecond) \div (2 * TicksPerSecond)

----------------------------------------------------------------------------
(* Tenants, metrics and the admission check *)

MemoryLimitInputs == {MemoryLimitMin}
RequestsPerSecondInputs == {1}
TtlInputs == {0, 1}
Amounts == {1}

\* Tenant(**tenant_data): the validators of config/schemas.py
TenantValid(data) ==
    /\ Len(data.id) >= MinIdLen
    /\ data.memory_limit_mb >= MemoryLimitMin
    /\ data.memory_limit_mb <= MemoryLimitMax
    /\ data.requests_per_second >= 1
    /\ data.requests_per_second <= 10000

\* a constructor whose id validator does not lower-case
TenantKeepsCase(data) ==
    [id |-> data.id, status |-> "active",
     memory_limit_mb |-> data.memory_limit_mb,
     requests_per_second |-> data.requests_per_second]

Tenant(data) ==
    [id |-> Lower(data.id), status |-> "active",
     memory_limit_mb |-> data.memory_limit_mb,
     requests_per_second |-> data.requests_per_second]

\* tenant.json(), the text stored under tenant:{id}
TenantJson(tenant) == [json |-> "object", str |-> "", num |-> 0, bytes |-> 0, obj |-> tenant]

\* CacheMetrics(); memory_used_mb is held in bytes (MB of them to the megabyte)
CacheMetrics ==
    [total_requests |-> 0, successful_requests |-> 0, failed_requests |-> 0,
     cache_hits |-> 0, cache_misses |-> 0, memory_used_mb |-> 0]

\* self.rate_limiters[tenant_id].get(rate_key, 0)
LastRequest(tenant_id, operation) ==
    IF <<tenant_id, operation>> \in DOMAIN rate_limiters
    THEN rate_limiters[<<tenant_id, operation>>] ELSE 0

MemoryExceeded(tenant_id) ==
    tenant_metrics[tenant_id].memory_used_mb > tenants[tenant_id].memory_limit_mb * MB

\* current_time - last_request < 1.0 / tenant.requests_per_second
RateLimited(tenant_id, operation) ==
    (now - LastRequest(tenant_id, operation)) * tenants[tenant_id].requests_per_second
        < TicksPerSecond

\* a quota check that leaves out the size of the value being written
WouldExceedIgnoresSize(tenant_id, size) ==
    tenant_metrics[tenant_id].memory_used_mb > tenants[tenant_id].memory_limit_mb * MB

\* a quota check that leaves out what the tenant already uses
WouldExceedIgnoresUsed(tenant_id, size) ==
    size > tenants[tenant_id].memory_limit_mb * MB

\* current_memory + value_size > self.tenants[tenant_id].memory_limit_mb
WouldExceed(tenant_id, size) ==
    tenant_metrics[tenant_id].memory_used_mb + size > tenants[tenant_id].memory_limit_mb * MB

_check_tenant_quota(tenant_id, operation) ==
    /\ tenant_id \in DOMAIN tenants
    /\ ~MemoryExceeded(tenant_id)
    /\ ~RateLimited(tenant_id, operation)

\* a limiter that records the time of every request of an existing tenant,
\* admitted or not
AdmittedStampsAlways(tenant_id, operation) ==
    IF tenant_id \in DOMAIN tenants
    THEN [p \in DOMAIN rate_limiters \cup {<<tenant_id, operation>>} |->
             IF p = <<tenant_id, operation>> THEN now ELSE rate_limiters[p]]
    ELSE rate_limiters

\* self.rate_limiters[tenant_id][rate_key] = current_time, on admission only
Admitted(tenant_id, operation) ==
    IF _check_tenant_quota(tenant_id, operation)
    THEN [p \in DOMAIN rate_limiters \cup {<<tenant_id, operation>>} |->
             IF p = <<tenant_id, operation>> THEN now ELSE rate_limiters[p]]
    ELSE rate_limiters

_update_operation_metrics(metrics, tenant_id, success) ==
    IF tenant_id \notin DOMAIN metrics THEN metrics
    ELSE [metrics EXCEPT ![tenant_id].total_requests = @ + 1,
                         ![tenant_id].successful_requests = @ + (IF success THEN 1 ELSE 0),
                         ![tenant_id].failed_requests = @ + (IF success THEN 0 ELSE 1)]

NoKv == [k \in {} |-> PyNone]

\* a completed call: its arguments, whether it passed the admission check, whether
\* a Redis call raised, whether it reported success, and the value it returned;
\* reached_backend tells whether a data-plane call issued a Redis command, which
\* the calls that check admission do once admitted (set and mset once the value
\* fits as well)
Call(op, tenant_id, key, arg, admitted, raised, ok, value) ==
    [op |-> op, tenant |-> tenant_id, key |-> key, arg |-> arg,
     admitted |-> admitted, raised |-> raised, ok |-> ok,
     value |-> value, values |-> <<>>, kv |-> NoKv,
     command |-> "", reply |-> PyNone, reached_backend |-> admitted]

NoWrite == [p \in TenantIds \X Keys |-> PyNone]

\* no snapshot taken yet
NoBackup == [tenant_id |-> <<>>, timestamp |-> 0, keys_count |-> 0, data |-> [k \in {} |-> 0]]

\* forget the recorded writes of the pairs in ps
Forget(w, ps) == [p \in DOMAIN w |-> IF p \in ps THEN PyNone ELSE w[p]]

\* a writer (set or mset) and a delete_tenant, each idle, suspended at an await
\* or returned; data is what the writer hands to Redis, keys what KEYS gave the
\* delete_tenant; overlapped tells whether both were suspended at once
IdleWriter == [pc |-> "idle", op |-> "", tenant |-> <<>>, data |-> [k \in {} |-> 0],
               ttl |-> 0, size |-> 0, ok |-> FALSE]
IdleDeleter == [pc |-> "idle", tenant |-> <<>>, keys |-> {}, ok |-> FALSE]
\* the health monitor inside _check_node_health's sleep for a node, and a
\* remove_node inside _drain_node_connections since start_time; left is the
\* number of connections the node held when its record was dropped
IdleProbe == [pc |-> "idle", node |-> "None"]
IdleDrain == [pc |-> "idle", node |-> "None", start_time |-> 0, left |-> 0]

\* executions holds the calls of execute_scaling_decision that have not returned
NoneInFlight == [writer |-> IdleWriter, deleter |-> IdleDeleter, overlapped |-> FALSE,
                 probe |-> IdleProbe, drain |-> IdleDrain, executions |-> <<>>]

\* ids of the tenants _load_tenants finds in Redis when the manager starts
LoadedTenant(tenant_id) ==
    Tenant([id |-> tenant_id, memory_limit_mb |-> MemoryLimitMin, requests_per_second |-> 1])

\* the state after initialize(), when _load_tenants found the tenants in loaded
InitWith(loaded) ==
    /\ tenants = [t \in loaded |-> LoadedTenant(t)]
    /\ tenant_metrics = [t \in loaded |-> CacheMetrics]
    /\ tenant_connections = [t \in loaded |-> 0]
    /\ redis = [k \in {TenantKey(t) : t \in loaded} |->
                   Entry(TenantJson(LoadedTenant(CHOOSE t \in loaded : TenantKey(t) = k)),
                         NoExpiry)]
    /\ rate_limiters = [p \in {} |-> 0]
    /\ now = TicksPerSecond
    /\ last = Call("init", <<>>, <<>>, PyNone, TRUE, FALSE, TRUE, PyNone)
    /\ written = NoWrite
    /\ steps = 0
    /\ backup = NoBackup
    /\ in_flight = NoneInFlight

CacheInit == \E loaded \in SUBSET TenantIds : InitWith(loaded)

----------------------------------------------------------------------------
(* Tenant administration *)

\* MultiTenantCacheManager.create_tenant
create_tenant(data, fail) ==
    LET valid == TenantValid(data)
        tenant == Tenant(data)
        ok == valid /\ tenant.id \notin DOMAIN tenants /\ fail = "none"
    IN  /\ fail \in {"none", "set"}
        /\ IF ok
           THEN /\ redis' = redis_set(redis, TenantKey(tenant.id), TenantJson(tenant))
                /\ tenants' = [t \in DOMAIN tenants \cup {tenant.id} |->
                                  IF t = tenant.id THEN tenant ELSE tenants[t]]
                /\ tenant_metrics' = [t \in DOMAIN tenant_metrics \cup {tenant.id} |->
                                  IF t = tenant.id THEN CacheMetrics ELSE tenant_metrics[t]]
                /\ tenant_connections' = [t \in DOMAIN tenant_connections \cup {tenant.id} |->
                                  IF t = tenant.id THEN 0 ELSE tenant_connections[t]]
           ELSE UNCHANGED <<redis, tenants, tenant_metrics, tenant_connections>>
        /\ last' = Call("create_tenant", data.id, <<>>, PyNone, TRUE, fail # "none", ok, PyNone)
        /\ UNCHANGED <<rate_limiters, now, written>>

\* MultiTenantCacheManager.delete_tenant; fail names the Redis call that raises
delete_tenant(tenant_id, fail) ==
    LET keys == redis_keys(redis, TenantNamespace(tenant_id))
        known == tenant_id \in DOMAIN tenants
        cleared == IF known /\ fail \in {"none", "del_record"}
                   THEN redis_delete(redis, keys) ELSE redis
        ok == known /\ fail = "none"
    IN  /\ fail \in {"none", "keys", "del_keys", "del_record"}
        /\ fail = "del_keys" => keys # {}
        /\ redis' = IF ok THEN redis_delete(cleared, {TenantKey(tenant_id)}) ELSE cleared
        /\ IF ok
           THEN /\ tenants' = [t \in DOMAIN tenants \ {tenant_id} |-> tenants[t]]
                /\ tenant_metrics' =
                       [t \in DOMAIN tenant_metrics \ {tenant_id} |-> tenant_metrics[t]]
                /\ tenant_connections' =
                       [t \in DOMAIN tenant_connections \ {tenant_id} |-> tenant_connections[t]]
           ELSE UNCHANGED <<tenants, tenant_metrics, tenant_connections>>
        /\ written' = IF known /\ fail \in {"none", "del_record"}
                      THEN Forget(written, {tenant_id} \X Keys) ELSE written
        /\ last' = Call("delete_tenant", tenant_id, <<>>, PyNone, TRUE, known /\ fail # "none", ok, PyNone)
        /\ UNCHANGED <<rate_limiters, now>>

\* MultiTenantCacheManager.clear_tenant_data
clear_tenant_data(tenant_id, fail) ==
    LET keys == redis_keys(redis, TenantNamespace(tenant_id))
        known == tenant_id \in DOMAIN tenants
        ok == known /\ fail = "none"
    IN  /\ fail \in {"none", "keys", "del_keys"}
        /\ fail = "del_keys" => keys # {}
        /\ redis' = IF ok THEN redis_delete(redis, keys) ELSE redis
        /\ tenant_metrics' = IF ok THEN [tenant_metrics EXCEPT ![tenant_id] = CacheMetrics]
                             ELSE tenant_metrics
        /\ written' = IF ok THEN Forget(written, {tenant_id} \X Keys) ELSE written
        /\ last' = Call("clear_tenant_data", tenant_id, <<>>, PyNone, TRUE, known /\ fail # "none", ok, PyNone)
        /\ UNCHANGED <<tenants, tenant_connections, rate_limiters, now>>

\* the time to live a snapshot holds for a key that has none
NoTtl == 0

\* backup_data[key] = {"value": value, "ttl": ttl if ttl > 0 else None}
BackupItem(store, key) ==
    [value |-> store[key].value,
     ttl |-> IF redis_ttl(store, key) > 0 THEN redis_ttl(store, key) ELSE NoTtl]

\* MultiTenantCacheManager.backup_tenant_data: None for an unknown tenant,
\* otherwise the value and time to live of every key KEYS finds
backup_tenant_data(tenant_id) ==
    LET known == tenant_id \in DOMAIN tenants
        keys == redis_keys(redis, TenantNamespace(tenant_id))
        backup_data == [key \in keys |-> BackupItem(redis, key)]
    IN  /\ backup' = IF known
                     THEN [tenant_id |-> tenant_id, timestamp |-> now,
                           keys_count |-> Cardinality(keys), data |-> backup_data]
                     ELSE backup
        /\ last' = Call("backup_tenant_data", tenant_id, <<>>, PyNone, TRUE, FALSE, known, PyNone)
        /\ UNCHANGED <<tenants, tenant_metrics, tenant_connections, rate_limiters,
                       redis, now, written>>

\* the loop of restore_tenant_data: SETEX for an item with a time to live,
\* SET for the others
RECURSIVE RestoreItems(_, _, _)
RestoreItems(store, data, keys) ==
    IF keys = {} THEN store
    ELSE LET key == CHOOSE k \in keys : TRUE
             item == data[key]
         IN  RestoreItems(IF item.ttl # NoTtl
                          THEN redis_setex(store, key, item.ttl, item.value)
                          ELSE redis_set(store, key, item.value),
                          data, keys \ {key})

\* MultiTenantCacheManager.restore_tenant_data: False for an unknown tenant,
\* otherwise clear_tenant_data and then one SET or SETEX per item of the snapshot
restore_tenant_data(tenant_id, backup_data) ==
    LET known == tenant_id \in DOMAIN tenants
        cleared_keys == redis_keys(redis, TenantNamespace(tenant_id))
        cleared == redis_delete(redis, cleared_keys)
        data == backup_data.data
        touched == {p \in DOMAIN written :
                       \/ p[1] = tenant_id
                       \/ _get_cache_key(p[1], p[2]) \in cleared_keys \cup DOMAIN data}
    IN  /\ redis' = IF known THEN RestoreItems(cleared, data, DOMAIN data) ELSE redis
        /\ tenant_metrics' = IF known THEN [tenant_metrics EXCEPT ![tenant_id] = CacheMetrics]
                             ELSE tenant_metrics
        /\ written' = IF known THEN Forget(written, touched) ELSE written
        /\ last' = Call("restore_tenant_data", tenant_id, <<>>, PyNone, TRUE, FALSE, known, PyNone)
        /\ UNCHANGED <<tenants, tenant_connections, rate_limiters, now, backup>>

\* restore_tenant_data of a known tenant when the loop raises after the items
\* under the keys `restored` were written (the backend fails at the next SET or
\* SETEX, or the next item of the snapshot is malformed): clear_tenant_data has
\* run, the handler returns False
restore_tenant_data_raises(tenant_id, backup_data, restored) ==
    LET cleared_keys == redis_keys(redis, TenantNamespace(tenant_id))
        cleared == redis_delete(redis, cleared_keys)
        data == backup_data.data
        touched == {p \in DOMAIN written :
                       \/ p[1] = tenant_id
                       \/ _get_cache_key(p[1], p[2]) \in cleared_keys \cup restored}
    IN  /\ tenant_id \in DOMAIN tenants
        /\ restored \subseteq DOMAIN data
        /\ restored # DOMAIN data
        /\ redis' = RestoreItems(cleared, data, restored)
        /\ tenant_metrics' = [tenant_metrics EXCEPT ![tenant_id] = CacheMetrics]
        /\ written' = Forget(written, touched)
        /\ last' = Call("restore_tenant_data", tenant_id, <<>>, PyNone, TRUE, TRUE, FALSE, PyNone)
        /\ UNCHANGED <<tenants, tenant_connections, rate_limiters, now, backup>>

----------------------------------------------------------------------------
(* Data-plane operations *)

Present(store, key) == key \in DOMAIN store

\* MultiTenantCacheManager.get
get(tenant_id, key, fail) ==
    LET admit == _check_tenant_quota(tenant_id, "get")
        cache_key == _get_cache_key(tenant_id, key)
        hit == Present(redis, cache_key)
        raised == admit /\ fail = "get"
        result == IF admit /\ ~raised /\ hit THEN json_loads(redis[cache_key].value)
                  ELSE PyNone
        counted == IF ~admit \/ raised THEN tenant_metrics
                   ELSE IF hit THEN [tenant_metrics EXCEPT ![tenant_id].cache_hits = @ + 1]
                   ELSE [tenant_metrics EXCEPT ![tenant_id].cache_misses = @ + 1]
    IN  /\ fail \in {"none", "get"}
        /\ rate_limiters' = Admitted(tenant_id, "get")
        /\ tenant_metrics' = IF admit
                             THEN _update_operation_metrics(counted, tenant_id, ~raised /\ hit)
                             ELSE tenant_metrics
        /\ last' = Call("get", tenant_id, key, PyNone, admit, raised, admit /\ ~raised /\ hit, result)
        /\ UNCHANGED <<tenants, tenant_connections, redis, now, written>>

\* MultiTenantCacheManager.set; ttl = 0 stands for ttl None or 0 (both falsy)
set(tenant_id, key, value, ttl, fail) ==
    LET admit == _check_tenant_quota(tenant_id, "set")
        cache_key == _get_cache_key(tenant_id, key)
        serialized_value == json_dumps(value)
        value_size == serialized_value.bytes
        fits == admit /\ ~WouldExceed(tenant_id, value_size)
        raised == fits /\ fail = "set"
        ok == fits /\ ~raised
    IN  /\ fail \in {"none", "set"}
        /\ rate_limiters' = Admitted(tenant_id, "set")
        /\ redis' = IF ~ok THEN redis
                    ELSE IF ttl # 0 THEN redis_setex(redis, cache_key, ttl, serialized_value)
                    ELSE redis_set(redis, cache_key, serialized_value)
        /\ tenant_metrics' =
               IF ok THEN _update_operation_metrics(
                              [tenant_metrics EXCEPT ![tenant_id].memory_used_mb = @ + value_size],
                              tenant_id, TRUE)
               ELSE IF raised THEN _update_operation_metrics(tenant_metrics, tenant_id, FALSE)
               ELSE tenant_metrics
        /\ written' = IF ok THEN [written EXCEPT ![<<tenant_id, key>>] = value] ELSE written
        /\ last' = [Call("set", tenant_id, key, value, admit, raised, ok, PyNone)
                        EXCEPT !.reached_backend = fits]
        /\ UNCHANGED <<tenants, tenant_connections, now>>

\* MultiTenantCacheManager.delete
delete(tenant_id, key, fail) ==
    LET admit == _check_tenant_quota(tenant_id, "delete")
        cache_key == _get_cache_key(tenant_id, key)
        found == Present(redis, cache_key)
        read == admit /\ fail # "get"
        \* if value: memory_used_mb -= len(value) / (1024 * 1024)
        debited == IF read /\ found /\ redis[cache_key].value.bytes > 0
                   THEN [tenant_metrics EXCEPT
                            ![tenant_id].memory_used_mb = @ - redis[cache_key].value.bytes]
                   ELSE tenant_metrics
        deleted == read /\ fail # "delete"
        success == deleted /\ found
    IN  /\ fail \in {"none", "get", "delete"}
        /\ rate_limiters' = Admitted(tenant_id, "delete")
        /\ redis' = IF deleted THEN redis_delete(redis, {cache_key}) ELSE redis
        /\ tenant_metrics' = IF admit
                             THEN _update_operation_metrics(debited, tenant_id, success)
                             ELSE tenant_metrics
        /\ written' = IF success THEN Forget(written, {<<tenant_id, key>>}) ELSE written
        /\ last' = Call("delete", tenant_id, key, PyNone, admit, admit /\ fail # "none", success, PyNone)
        /\ UNCHANGED <<tenants, tenant_connections, now>>

\* INCRBY / DECRBY: an absent key counts from 0, a key holding anything but an
\* integer raises; the key keeps its expiry
IsInteger(store, key) == ~Present(store, key) \/ store[key].value.json = "number"

redis_incrby(store, key, amount) ==
    IF Present(store, key)
    THEN [store EXCEPT ![key].value = RedisInt(@.num + amount)]
    ELSE redis_set(store, key, RedisInt(amount))

\* MultiTenantCacheManager.incr and MultiTenantCacheManager.decr (sign = -1)
incrby(op, sign, tenant_id, key, amount, fail) ==
    LET admit == _check_tenant_quota(tenant_id, op)
        cache_key == _get_cache_key(tenant_id, key)
        ok == admit /\ fail = "none" /\ IsInteger(redis, cache_key)
        stored == redis_incrby(redis, cache_key, sign * amount)
    IN  /\ fail \in {"none", "incrby"}
        /\ rate_limiters' = Admitted(tenant_id, op)
        /\ redis' = IF ok THEN stored ELSE redis
        /\ tenant_metrics' = IF admit THEN _update_operation_metrics(tenant_metrics, tenant_id, ok)
                             ELSE tenant_metrics
        /\ written' = IF ok THEN Forget(written, {<<tenant_id, key>>}) ELSE written
        /\ last' = Call(op, tenant_id, key, PyInt(amount), admit, admit /\ ~ok, ok,
                        IF ok THEN PyInt(stored[cache_key].value.num) ELSE PyNone)
        /\ UNCHANGED <<tenants, tenant_connections, now>>

incr(tenant_id, key, amount, fail) == incrby("incr", 1, tenant_id, key, amount, fail)

decr(tenant_id, key, amount, fail) == incrby("decr", 0 - 1, tenant_id, key, amount, fail)

KeyLists == {<<KeyK, KeyEscDK>>}

\* MultiTenantCacheManager.mget
mget(tenant_id, keys, fail) ==
    LET admit == _check_tenant_quota(tenant_id, "mget")
        ok == admit /\ fail = "none"
        cache_keys == [i \in 1..Len(keys) |-> _get_cache_key(tenant_id, keys[i])]
        result == [i \in 1..Len(keys) |->
                      IF ok /\ Present(redis, cache_keys[i])
                      THEN json_loads(redis[cache_keys[i]].value) ELSE PyNone]
        hits == Cardinality({i \in 1..Len(keys) : Present(redis, cache_keys[i])})
        counted == IF ok
                   THEN [tenant_metrics EXCEPT ![tenant_id].cache_hits = @ + hits,
                                               ![tenant_id].cache_misses = @ + Len(keys) - hits]
                   ELSE tenant_metrics
    IN  /\ fail \in {"none", "mget"}
        /\ rate_limiters' = Admitted(tenant_id, "mget")
        /\ tenant_metrics' = IF admit THEN _update_operation_metrics(counted, tenant_id, ok)
                             ELSE tenant_metrics
        /\ last' = [Call("mget", tenant_id, <<>>, PyNone, admit, admit /\ ~ok, ok, PyNone) EXCEPT !.values = result]
        /\ UNCHANGED <<tenants, tenant_connections, redis, now, written>>

KeyValues == {[k \in Keys |-> IF k = KeyK THEN VTuple ELSE VBig],
              [k \in Keys |-> VBig]}

RECURSIVE SumBytes(_, _)
SumBytes(key_values, ks) ==
    IF ks = {} THEN 0
    ELSE LET k == CHOOSE x \in ks : TRUE
         IN  json_dumps(key_values[k]).bytes + SumBytes(key_values, ks \ {k})

\* MultiTenantCacheManager.mset
mset(tenant_id, key_values, fail) ==
    LET admit == _check_tenant_quota(tenant_id, "mset")
        cache_data == [ck \in {_get_cache_key(tenant_id, k) : k \in DOMAIN key_values} |->
                          json_dumps(key_values[CHOOSE k \in DOMAIN key_values :
                                                    _get_cache_key(tenant_id, k) = ck])]
        total_size == SumBytes(key_values, DOMAIN key_values)
        fits == admit /\ ~WouldExceed(tenant_id, total_size)
        raised == fits /\ fail = "mset"
        ok == fits /\ ~raised
    IN  /\ fail \in {"none", "mset"}
        /\ rate_limiters' = Admitted(tenant_id, "mset")
        /\ redis' = IF ok THEN redis_mset(redis, cache_data) ELSE redis
        /\ tenant_metrics' =
               IF ok THEN _update_operation_metrics(
                              [tenant_metrics EXCEPT ![tenant_id].memory_used_mb = @ + total_size],
                              tenant_id, TRUE)
               ELSE IF raised THEN _update_operation_metrics(tenant_metrics, tenant_id, FALSE)
               ELSE tenant_metrics
        /\ written' = IF ok THEN Forget(written, {tenant_id} \X DOMAIN key_values) ELSE written
        /\ last' = [Call("mset", tenant_id, <<>>, PyNone, admit, raised, ok, PyNone)
                        EXCEPT !.kv = key_values, !.reached_backend = fits]
        /\ UNCHANGED <<tenants, tenant_connections, now>>

\* MultiTenantCacheManager.exists: builds the storage key and asks Redis
exists(tenant_id, key) ==
    LET cache_key == _get_cache_key(tenant_id, key)
        found == redis_exists(redis, cache_key) > 0
    IN  /\ last' = [Call("exists", tenant_id, key, PyNone, FALSE, FALSE, found, PyNone)
                        EXCEPT !.reached_backend = TRUE]
        /\ UNCHANGED <<tenants, tenant_metrics, tenant_connections, rate_limiters,
                       redis, now, written>>

\* MultiTenantCacheManager.expire: builds the storage key and hands it to EXPIRE
expire(tenant_id, key, ttl) ==
    LET cache_key == _get_cache_key(tenant_id, key)
    IN  /\ redis' = redis_expire(redis, cache_key, ttl)
        /\ last' = [Call("expire", tenant_id, key, PyInt(ttl), FALSE, FALSE,
                         Present(redis, cache_key), PyNone)
                        EXCEPT !.reached_backend = TRUE]
        /\ UNCHANGED <<tenants, tenant_metrics, tenant_connections, rate_limiters,
                       now, written>>

\* MultiTenantCacheManager.ttl: builds the storage key and returns what TTL says
ttl(tenant_id, key) ==
    LET cache_key == _get_cache_key(tenant_id, key)
    IN  /\ last' = [Call("ttl", tenant_id, key, PyNone, FALSE, FALSE, TRUE,
                         PyInt(redis_ttl(redis, cache_key)))
                        EXCEPT !.reached_backend = TRUE]
        /\ UNCHANGED <<tenants, tenant_metrics, tenant_connections, rate_limiters,
                       redis, now, written>>

----------------------------------------------------------------------------
(* Time *)

\* the clock advances one tick; keys whose expiry is reached are gone
Tick ==
    /\ now' = now + 1
    /\ redis' = Expire(redis, now + 1)
    /\ written' = Forget(written,
                         {p \in DOMAIN written :
                             /\ Present(redis, _get_cache_key(p[1], p[2]))
                             /\ ~Present(Expire(redis, now + 1), _get_cache_key(p[1], p[2]))})
    /\ last' = Call("tick", <<>>, <<>>, PyNone, TRUE, FALSE, TRUE, PyNone)
    /\ UNCHANGED <<tenants, tenant_metrics, tenant_connections, rate_limiters>>

----------------------------------------------------------------------------
(* The cache manager as a state machine *)

TenantData == [id : TenantIdInputs, memory_limit_mb : MemoryLimitInputs,
               requests_per_second : RequestsPerSecondInputs]

\* calls are made for the tenants that exist and for IdAbc, which may not
TenantArgs == DOMAIN tenants \cup {IdAbc}

\* the user keys each tenant's callers use
KeysOf(tenant_id) == IF tenant_id = IdAbc THEN Keys ELSE {KeyK}

CreateTenant == \E data \in TenantData : create_tenant(data, "none")

DeleteTenant == \E t \in TenantArgs, fail \in {"none", "del_record"} : delete_tenant(t, fail)

ClearTenantData == \E t \in TenantArgs : clear_tenant_data(t, "none")

Get == \E t \in TenantArgs : \E k \in KeysOf(t) : get(t, k, "none")

Set ==
    \E t \in TenantArgs : \E k \in KeysOf(t), v \in Values, seconds \in TtlInputs,
                              fail \in {"none", "set"} :
        set(t, k, v, seconds, fail)

Delete == \E t \in TenantArgs : \E k \in KeysOf(t), fail \in {"none", "delete"} :
              delete(t, k, fail)

Incr == \E t \in TenantArgs : \E k \in KeysOf(t), n \in Amounts : incr(t, k, n, "none")

Decr == \E t \in TenantArgs : \E k \in KeysOf(t), n \in Amounts : decr(t, k, n, "none")

MGet == \E t \in TenantArgs, ks \in KeyLists : mget(t, ks, "none")

MSet == \E t \in TenantArgs, kv \in KeyValues, fail \in {"none", "mset"} : mset(t, kv, fail)

Exists == \E t \in TenantArgs : \E k \in KeysOf(t) : exists(t, k)

ExpireKey == \E t \in TenantArgs : \E k \in KeysOf(t), seconds \in TtlInputs \ {0} :
                 expire(t, k, seconds)

Ttl == \E t \in TenantArgs : \E k \in KeysOf(t) : ttl(t, k)

BackupTenantData == \E t \in TenantArgs : backup_tenant_data(t)

\* the snapshot goes back to the tenant it was taken from
RestoreTenantData == backup # NoBackup /\ restore_tenant_data(backup.tenant_id, backup)

RestoreTenantDataRaises ==
    /\ backup # NoBackup
    /\ \E restored \in SUBSET DOMAIN backup.data :
           restore_tenant_data_raises(backup.tenant_id, backup, restored)

\* one more call or tick, while the bound on the length of a run allows
Step == steps < MaxSteps /\ steps' = steps + 1

----------------------------------------------------------------------------
(* The coroutines of set, mset and delete_tenant, one step per await *)

Suspended(coroutine) == coroutine.pc \notin {"idle", "returned"}

\* a step of one coroutine, with the note whether both are now suspended
InFlight(writer, deleter) ==
    [in_flight EXCEPT !.writer = writer, !.deleter = deleter,
                      !.overlapped = @ \/ (Suspended(writer) /\ Suspended(deleter))]

\* set up to its first await: the admission check, the size check and the
\* SET or SETEX handed to the Redis client
set_begin(tenant_id, key, value, seconds) ==
    LET admit == _check_tenant_quota(tenant_id, "set")
        cache_key == _get_cache_key(tenant_id, key)
        serialized_value == json_dumps(value)
        value_size == serialized_value.bytes
        fits == admit /\ ~WouldExceed(tenant_id, value_size)
        writer == IF fits
                  THEN [pc |-> "await_redis", op |-> "set", tenant |-> tenant_id,
                        data |-> [k \in {cache_key} |-> serialized_value],
                        ttl |-> seconds, size |-> value_size, ok |-> FALSE]
                  ELSE [IdleWriter EXCEPT !.pc = "returned", !.op = "set",
                                          !.tenant = tenant_id]
    IN  /\ in_flight.writer.pc = "idle"
        /\ rate_limiters' = Admitted(tenant_id, "set")
        /\ in_flight' = InFlight(writer, in_flight.deleter)
        /\ UNCHANGED <<tenants, tenant_metrics, tenant_connections, redis>>

\* mset up to its first await
mset_begin(tenant_id, key_values) ==
    LET admit == _check_tenant_quota(tenant_id, "mset")
        cache_data == [ck \in {_get_cache_key(tenant_id, k) : k \in DOMAIN key_values} |->
                          json_dumps(key_values[CHOOSE k \in DOMAIN key_values :
                                                    _get_cache_key(tenant_id, k) = ck])]
        total_size == SumBytes(key_values, DOMAIN key_values)
        fits == admit /\ ~WouldExceed(tenant_id, total_size)
        writer == IF fits
                  THEN [pc |-> "await_redis", op |-> "mset", tenant |-> tenant_id,
                        data |-> cache_data, ttl |-> 0, size |-> total_size, ok |-> FALSE]
                  ELSE [IdleWriter EXCEPT !.pc = "returned", !.op = "mset",
                                          !.tenant = tenant_id]
    IN  /\ in_flight.writer.pc = "idle"
        /\ rate_limiters' = Admitted(tenant_id, "mset")
        /\ in_flight' = InFlight(writer, in_flight.deleter)
        /\ UNCHANGED <<tenants, tenant_metrics, tenant_connections, redis>>

\* Redis executes the writer's SET, SETEX or MSET
writer_redis ==
    LET writer == in_flight.writer
        cache_key == CHOOSE k \in DOMAIN writer.data : TRUE
    IN  /\ writer.pc = "await_redis"
        /\ redis' = IF writer.op = "mset" THEN redis_mset(redis, writer.data)
                    ELSE IF writer.ttl # 0
                         THEN redis_setex(redis, cache_key, writer.ttl, writer.data[cache_key])
                    ELSE redis_set(redis, cache_key, writer.data[cache_key])
        /\ in_flight' = InFlight([writer EXCEPT !.pc = "resume"], in_flight.deleter)
        /\ UNCHANGED <<tenants, tenant_metrics, tenant_connections, rate_limiters>>

\* the writer after its await: self.tenant_metrics[tenant_id].memory_used_mb +=
\* raises KeyError when the tenant is gone, and the handler returns False
writer_resume ==
    LET writer == in_flight.writer
        known == writer.tenant \in DOMAIN tenant_metrics
    IN  /\ writer.pc = "resume"
        /\ tenant_metrics' =
               IF known
               THEN _update_operation_metrics(
                        [tenant_metrics EXCEPT ![writer.tenant].memory_used_mb = @ + writer.size],
                        writer.tenant, TRUE)
               ELSE _update_operation_metrics(tenant_metrics, writer.tenant, FALSE)
        /\ in_flight' = InFlight([writer EXCEPT !.pc = "returned", !.ok = known],
                                 in_flight.deleter)
        /\ UNCHANGED <<tenants, tenant_connections, rate_limiters, redis>>

\* delete_tenant up to its first await: the membership test and the KEYS call
delete_tenant_begin(tenant_id) ==
    LET known == tenant_id \in DOMAIN tenants
        deleter == [pc |-> IF known THEN "await_keys" ELSE "returned",
                    tenant |-> tenant_id, keys |-> {}, ok |-> FALSE]
    IN  /\ in_flight.deleter.pc = "idle"
        /\ in_flight' = InFlight(in_flight.writer, deleter)
        /\ UNCHANGED <<tenants, tenant_metrics, tenant_connections, rate_limiters, redis>>

\* Redis answers KEYS; if keys: the DEL of the keys is next, else the DEL of the record
delete_tenant_keys ==
    LET deleter == in_flight.deleter
        keys == redis_keys(redis, TenantNamespace(deleter.tenant))
    IN  /\ deleter.pc = "await_keys"
        /\ in_flight' = InFlight(in_flight.writer,
                                 [deleter EXCEPT !.keys = keys,
                                                 !.pc = IF keys # {} THEN "await_del_keys"
                                                        ELSE "await_del_record"])
        /\ UNCHANGED <<tenants, tenant_metrics, tenant_connections, rate_limiters, redis>>

\* Redis executes DEL on the keys that KEYS returned
delete_tenant_del_keys ==
    LET deleter == in_flight.deleter
    IN  /\ deleter.pc = "await_del_keys"
        /\ redis' = redis_delete(redis, deleter.keys)
        /\ in_flight' = InFlight(in_flight.writer, [deleter EXCEPT !.pc = "await_del_record"])
        /\ UNCHANGED <<tenants, tenant_metrics, tenant_connections, rate_limiters>>

\* Redis executes DEL on tenant:{id}
delete_tenant_del_record ==
    LET deleter == in_flight.deleter
    IN  /\ deleter.pc = "await_del_record"
        /\ redis' = redis_delete(redis, {TenantKey(deleter.tenant)})
        /\ in_flight' = InFlight(in_flight.writer, [deleter EXCEPT !.pc = "resume"])
        /\ UNCHANGED <<tenants, tenant_metrics, tenant_connections, rate_limiters>>

\* delete_tenant after its last await: the three del statements and return True
delete_tenant_resume ==
    LET deleter == in_flight.deleter
        t == deleter.tenant
    IN  /\ deleter.pc = "resume"
        /\ tenants' = [x \in DOMAIN tenants \ {t} |-> tenants[x]]
        /\ tenant_metrics' = [x \in DOMAIN tenant_metrics \ {t} |-> tenant_metrics[x]]
        /\ tenant_connections' = [x \in DOMAIN tenant_connections \ {t} |-> tenant_connections[x]]
        /\ in_flight' = InFlight(in_flight.writer,
                                 [deleter EXCEPT !.pc = "returned", !.ok = TRUE])
        /\ UNCHANGED <<rate_limiters, redis>>

SetBegin ==
    \E t \in TenantArgs : \E k \in KeysOf(t), v \in Values, seconds \in TtlInputs :
        set_begin(t, k, v, seconds)

MSetBegin == \E t \in TenantArgs, kv \in KeyValues : mset_begin(t, kv)

DeleteTenantBegin == \E t \in TenantArgs : delete_tenant_begin(t)

----------------------------------------------------------------------------
(* The orchestrator's command interface *)

\* the command strings callers pass to execute_command
Commands == {"create_backup", "restore_backup", "get_metrics", "get_tenants",
             "create_tenant", "cache_set", "list_tenants", "flush_all"}

NoTenantParam == <<>>

\* CacheOrchestrator._create_backup: describes a backup, writes nothing
_create_backup(params) ==
    [success |-> TRUE, error |-> "", handler |-> "_create_backup",
     payload |-> PyInt(now \div TicksPerSecond)]

\* CacheOrchestrator._restore_backup: logs the file name, restores nothing
_restore_backup(params) ==
    [success |-> TRUE, error |-> "", handler |-> "_restore_backup", payload |-> PyNone]

RECURSIVE SumMemory(_, _)
SumMemory(metrics, ts) ==
    IF ts = {} THEN 0
    ELSE LET t == CHOOSE x \in ts : TRUE
         IN  metrics[t].memory_used_mb + SumMemory(metrics, ts \ {t})

\* MultiTenantCacheManager.get_system_metrics, the fields computed from the tenant table
get_system_metrics ==
    [active_tenants |-> Cardinality(DOMAIN tenants),
     memory_usage_mb |-> SumMemory(tenant_metrics, DOMAIN tenant_metrics)]

\* CacheOrchestrator._get_metrics
_get_metrics(params) ==
    [success |-> TRUE, error |-> "", handler |-> "_get_metrics",
     payload |-> IF params.tenant_id # NoTenantParam
                 THEN IF params.tenant_id \in DOMAIN tenant_metrics
                      THEN tenant_metrics[params.tenant_id] ELSE PyNone
                 ELSE get_system_metrics]

\* CacheOrchestrator._get_tenants
_get_tenants ==
    [success |-> TRUE, error |-> "", handler |-> "_get_tenants",
     payload |-> {tenants[t] : t \in DOMAIN tenants}]

\* the reply of the final else branch of execute_command
UnknownCommand(command) ==
    [success |-> FALSE, error |-> "Unknown command", handler |-> "", payload |-> PyNone]

\* CacheOrchestrator.execute_command
execute_command(command, params) ==
    LET reply == IF command = "create_backup" THEN _create_backup(params)
                 ELSE IF command = "restore_backup" THEN _restore_backup(params)
                 ELSE IF command = "get_metrics" THEN _get_metrics(params)
                 ELSE IF command = "get_tenants" THEN _get_tenants
                 ELSE UnknownCommand(command)
    IN  /\ last' = [Call("execute_command", params.tenant_id, <<>>, PyNone,
                         TRUE, FALSE, reply.success, PyNone)
                       EXCEPT !.command = command, !.reply = reply]
        /\ UNCHANGED <<tenants, tenant_metrics, tenant_connections, rate_limiters,
                       redis, now, written>>

ExecuteCommand ==
    \E command \in Commands, t \in TenantArgs \cup {NoTenantParam} :
        execute_command(command, [tenant_id |-> t])

----------------------------------------------------------------------------
(* The load balancer *)

max_connections_per_node == 100
min_connections_per_node == 10

NodeIds == {"redis-1", "redis-2"}

NoNode == "None"
NoKey == "None"

\* a node as _initialize_nodes and add_node build it
Node == [max_connections |-> max_connections_per_node, current_connections |-> 0,
         status |-> "online"]

\* Python dicts keep insertion order: a dict is a sequence of <<key, value>> pairs
DictKeys(d) == {d[i][1] : i \in DOMAIN d}

DictSet(d, k, v) ==
    IF k \in DictKeys(d)
    THEN [i \in DOMAIN d |-> IF d[i][1] = k THEN <<k, v>> ELSE d[i]]
    ELSE Append(d, <<k, v>>)

DictDel(d, k) == SelectSeq(d, LAMBDA e : e[1] # k)

\* [node_id for node_id, healthy in self.node_health.items() if healthy]
HealthyNodes(health) ==
    LET healthy == SelectSeq(health, LAMBDA e : e[2])
    IN  [i \in DOMAIN healthy |-> healthy[i][1]]

Without(f, k) == [x \in DOMAIN f \ {k} |-> f[x]]

With(f, k, v) == [x \in DOMAIN f \cup {k} |-> IF x = k THEN v ELSE f[x]]

LBCall(op, node_id, ok) == [op |-> op, node |-> node_id, ok |-> ok, tenant |-> "", key |-> ""]

\* the requests whose routing get_node decides
HashInputs == {<<"abc", "k">>, <<"abd", "k">>, <<"abc", NoKey>>}

NoRoute == [h \in HashInputs |-> [node |-> NoNode, calls |-> 0]]

HealthySet(health) == {health[i][1] : i \in {j \in DOMAIN health : health[j][2]}}

\* the recorded routes last as long as the set of healthy nodes stays the same
StillRouted(health) == IF HealthySet(health) = HealthySet(node_health) THEN routed ELSE NoRoute

\* the state after LoadBalancer.__init__ and initialize()
LoadBalancerInit ==
    /\ nodes = [n \in {"redis-1"} |-> Node]
    /\ node_health = << <<"redis-1", TRUE>> >>
    /\ request_counters = [n \in {"redis-1"} |-> 0]
    /\ response_times = [n \in {} |-> <<>>]
    /\ algorithm = "consistent_hash"
    /\ current_node_index = 0
    /\ lb_last = LBCall("initialize", NoNode, TRUE)
    /\ routed = NoRoute

\* LoadBalancer.add_node
add_node(node_id) ==
    IF node_id \in DOMAIN nodes
    THEN /\ lb_last' = LBCall("add_node", node_id, FALSE)
         /\ UNCHANGED <<nodes, node_health, request_counters, response_times,
                        algorithm, current_node_index, routed>>
    ELSE /\ nodes' = With(nodes, node_id, Node)
         /\ node_health' = DictSet(node_health, node_id, TRUE)
         /\ request_counters' = With(request_counters, node_id, 0)
         /\ response_times' = With(response_times, node_id, <<>>)
         /\ routed' = NoRoute
         /\ lb_last' = LBCall("add_node", node_id, TRUE)
         /\ UNCHANGED <<algorithm, current_node_index>>

\* LoadBalancer.remove_node: the last del raises KeyError for a node that never
\* got a response_times entry, after the other tables have dropped the node
remove_node(node_id) ==
    IF node_id \notin DOMAIN nodes
    THEN /\ lb_last' = LBCall("remove_node", node_id, FALSE)
         /\ UNCHANGED <<nodes, node_health, request_counters, response_times,
                        algorithm, current_node_index, routed>>
    ELSE /\ nodes' = Without(nodes, node_id)
         /\ node_health' = DictDel(node_health, node_id)
         /\ request_counters' = Without(request_counters, node_id)
         /\ response_times' = Without(response_times, node_id)
         /\ routed' = StillRouted(DictDel(node_health, node_id))
         /\ lb_last' = LBCall("remove_node", node_id, node_id \in DOMAIN response_times)
         /\ UNCHANGED <<algorithm, current_node_index>>

\* f"{tenant_id}:{key}" if key else tenant_id
HashKey(tenant_id, key) == IF key # NoKey THEN <<tenant_id, ":", key>> ELSE <<tenant_id>>

\* int(hashlib.md5(hash_key.encode()).hexdigest(), 16) modulo 6, which fixes the
\* value modulo every node count up to 3
Md5Mod6(hash_key) ==
    CASE hash_key = <<"abc">> -> 4
      [] hash_key = <<"abc", ":", "k">> -> 4
      [] hash_key = <<"abd">> -> 2
      [] hash_key = <<"abd", ":", "k">> -> 5

\* LoadBalancer._round_robin_select, the node it returns
_round_robin_select(available_nodes) ==
    available_nodes[(current_node_index % Len(available_nodes)) + 1]

\* LoadBalancer._least_connections_select: the first node with the fewest connections
_least_connections_select(available_nodes) ==
    LET i == CHOOSE i \in DOMAIN available_nodes :
                 /\ \A j \in DOMAIN available_nodes :
                        nodes[available_nodes[i]].current_connections
                            <= nodes[available_nodes[j]].current_connections
                 /\ \A j \in 1..(i - 1) :
                        nodes[available_nodes[j]].current_connections
                            > nodes[available_nodes[i]].current_connections
    IN  available_nodes[i]

HashSelectByConnections(available_nodes, tenant_id, key) ==
    _least_connections_select(available_nodes)

\* LoadBalancer._consistent_hash_select
_consistent_hash_select(available_nodes, tenant_id, key) ==
    available_nodes[(Md5Mod6(HashKey(tenant_id, key)) % Len(available_nodes)) + 1]

\* LoadBalancer.get_node; self.nodes[node_id] in the least-connections loop
\* raises KeyError for an id the registry does not hold, and get_node returns None
get_node(tenant_id, key) ==
    LET available_nodes == HealthyNodes(node_health)
        node == IF available_nodes = <<>> THEN NoNode
                ELSE IF algorithm = "round_robin" THEN _round_robin_select(available_nodes)
                ELSE IF algorithm = "least_connections"
                     THEN IF \A i \in DOMAIN available_nodes :
                                 available_nodes[i] \in DOMAIN nodes
                          THEN _least_connections_select(available_nodes)
                          ELSE NoNode
                ELSE IF algorithm = "consistent_hash"
                     THEN _consistent_hash_select(available_nodes, tenant_id, key)
                ELSE available_nodes[1]
    IN  /\ current_node_index' =
               IF available_nodes # <<>> /\ algorithm = "round_robin"
               THEN (current_node_index + 1) % Len(available_nodes)
               ELSE current_node_index
        /\ routed' = IF available_nodes # <<>> /\ algorithm = "consistent_hash"
                     THEN [routed EXCEPT ![<<tenant_id, key>>] =
                                              [node |-> node, calls |-> @.calls + 1]]
                     ELSE routed
        /\ lb_last' = [LBCall("get_node", node, node # NoNode)
                          EXCEPT !.tenant = tenant_id, !.key = key]
        /\ UNCHANGED <<nodes, node_health, request_counters, response_times, algorithm>>

\* LoadBalancer.set_algorithm
set_algorithm(new_algorithm) ==
    LET valid == new_algorithm \in {"round_robin", "least_connections", "consistent_hash"}
    IN  /\ algorithm' = IF valid THEN new_algorithm ELSE algorithm
        /\ lb_last' = LBCall("set_algorithm", NoNode, valid)
        /\ UNCHANGED <<nodes, node_health, request_counters, response_times,
                       current_node_index, routed>>

Max(a, b) == IF a >= b THEN a ELSE b
Min(a, b) == IF a <= b THEN a ELSE b

\* LoadBalancer.record_request
record_request(node_id, response_time, success) ==
    IF node_id \notin DOMAIN nodes
    THEN /\ lb_last' = LBCall("record_request", node_id, FALSE)
         /\ UNCHANGED <<nodes, node_health, request_counters, response_times,
                        algorithm, current_node_index, routed>>
    ELSE /\ request_counters' = [request_counters EXCEPT ![node_id] = @ + 1]
         /\ response_times' =
                LET old == IF node_id \in DOMAIN response_times
                           THEN response_times[node_id] ELSE <<>>
                    new == Append(old, response_time)
                IN  With(response_times, node_id,
                         IF Len(new) > 1000 THEN SubSeq(new, Len(new) - 999, Len(new))
                         ELSE new)
         /\ nodes' = IF success
                     THEN [nodes EXCEPT ![node_id].current_connections = Max(0, @ - 1)]
                     ELSE nodes
         /\ lb_last' = LBCall("record_request", node_id, TRUE)
         /\ UNCHANGED <<node_health, algorithm, current_node_index, routed>>

AcquireBeyondMax(node_id) ==
    LET ok == /\ node_id \in DOMAIN nodes
              /\ ~(nodes[node_id].current_connections > nodes[node_id].max_connections)
    IN  /\ nodes' = IF ok THEN [nodes EXCEPT ![node_id].current_connections = @ + 1]
                    ELSE nodes
        /\ lb_last' = LBCall("acquire_connection", node_id, ok)
        /\ UNCHANGED <<node_health, request_counters, response_times, algorithm,
                       current_node_index, routed>>

\* LoadBalancer.acquire_connection
acquire_connection(node_id) ==
    LET ok == /\ node_id \in DOMAIN nodes
              /\ ~(nodes[node_id].current_connections >= nodes[node_id].max_connections)
    IN  /\ nodes' = IF ok THEN [nodes EXCEPT ![node_id].current_connections = @ + 1]
                    ELSE nodes
        /\ lb_last' = LBCall("acquire_connection", node_id, ok)
        /\ UNCHANGED <<node_health, request_counters, response_times, algorithm,
                       current_node_index, routed>>

\* LoadBalancer.release_connection
release_connection(node_id) ==
    /\ nodes' = IF node_id \in DOMAIN nodes
                THEN [nodes EXCEPT ![node_id].current_connections = Max(0, @ - 1)]
                ELSE nodes
    /\ lb_last' = LBCall("release_connection", node_id, node_id \in DOMAIN nodes)
    /\ UNCHANGED <<node_health, request_counters, response_times, algorithm,
                   current_node_index, routed>>

\* LoadBalancer._check_node_health writes the node's status; whether the simulated
\* probe stays under its one-second threshold depends on the event loop's timing
_check_node_health(node, is_healthy) ==
    [node EXCEPT !.status = IF is_healthy THEN "online" ELSE "offline"]

\* one pass of LoadBalancer._health_monitor over all nodes; slow holds the nodes
\* whose probe took a second or more
_health_monitor(slow) ==
    LET health == [i \in DOMAIN node_health |->
                      IF node_health[i][1] \in DOMAIN nodes
                      THEN <<node_health[i][1], node_health[i][1] \notin slow>>
                      ELSE node_health[i]]
    IN  /\ nodes' = [n \in DOMAIN nodes |-> _check_node_health(nodes[n], n \notin slow)]
        /\ node_health' = health
        /\ routed' = StillRouted(health)
        /\ lb_last' = LBCall("_health_monitor", NoNode, TRUE)
        /\ UNCHANGED <<request_counters, response_times, algorithm, current_node_index>>

\* LoadBalancer._manage_node_connections, the node it leaves behind
_manage_node_connections(node) ==
    IF node.current_connections * 10 > max_connections_per_node * 8
    THEN [node EXCEPT !.max_connections =
                          Min(max_connections_per_node * 2, node.max_connections + 10)]
    ELSE IF node.current_connections < min_connections_per_node
    THEN [node EXCEPT !.max_connections =
                          Max(min_connections_per_node, node.max_connections - 5)]
    ELSE node

\* one pass of LoadBalancer._connection_pool_manager over all nodes
_connection_pool_manager ==
    /\ nodes' = [n \in DOMAIN nodes |-> _manage_node_connections(nodes[n])]
    /\ lb_last' = LBCall("_connection_pool_manager", NoNode, TRUE)
    /\ UNCHANGED <<node_health, request_counters, response_times, algorithm,
                   current_node_index, routed>>

RECURSIVE SumConnections(_, _)
SumConnections(ns, ids) ==
    IF ids = {} THEN 0
    ELSE LET n == CHOOSE x \in ids : TRUE
         IN  ns[n].current_connections + SumConnections(ns, ids \ {n})

\* the share of the connections rebalance_connections gives each healthy node
TargetConnections(total_connections, healthy_nodes) ==
    total_connections \div Len(healthy_nodes)

\* LoadBalancer.rebalance_connections
rebalance_connections ==
    LET total_connections == SumConnections(nodes, DOMAIN nodes)
        healthy_nodes == HealthyNodes(node_health)
    IN  IF healthy_nodes = <<>>
        THEN /\ lb_last' = LBCall("rebalance_connections", NoNode, FALSE)
             /\ UNCHANGED <<nodes, node_health, request_counters, response_times,
                            algorithm, current_node_index, routed>>
        ELSE /\ nodes' = [n \in DOMAIN nodes |->
                             IF n \in HealthySet(node_health)
                             THEN [nodes[n] EXCEPT !.current_connections =
                                       TargetConnections(total_connections, healthy_nodes)]
                             ELSE nodes[n]]
             /\ lb_last' = LBCall("rebalance_connections", NoNode, TRUE)
             /\ UNCHANGED <<node_health, request_counters, response_times, algorithm,
                            current_node_index, routed>>

\* _health_monitor reaches a node of the registry: _check_node_health takes the
\* node's dict and sleeps
probe_begin(node_id) ==
    /\ in_flight.probe.pc = "idle"
    /\ node_id \in DOMAIN nodes
    /\ in_flight' = [in_flight EXCEPT !.probe = [pc |-> "sleeping", node |-> node_id]]
    /\ lb_last' = LBCall("_check_node_health", node_id, TRUE)
    /\ UNCHANGED <<nodes, node_health, request_counters, response_times, algorithm,
                   current_node_index, routed>>

\* _check_node_health after its sleep writes the status into the dict it took
\* (which the registry may no longer hold), and _health_monitor stores the
\* verdict in node_health under the node's id
probe_resume(is_healthy) ==
    LET node_id == in_flight.probe.node
        health == DictSet(node_health, node_id, is_healthy)
    IN  /\ in_flight.probe.pc = "sleeping"
        /\ nodes' = IF node_id \in DOMAIN nodes
                    THEN [nodes EXCEPT ![node_id] = _check_node_health(@, is_healthy)]
                    ELSE nodes
        /\ node_health' = health
        /\ routed' = StillRouted(health)
        /\ in_flight' = [in_flight EXCEPT !.probe = IdleProbe]
        /\ lb_last' = LBCall("_health_monitor", node_id, is_healthy)
        /\ UNCHANGED <<request_counters, response_times, algorithm, current_node_index>>

\* max_wait_time of _drain_node_connections, in seconds
max_wait_time == 30

\* a drain loop that gives up after its first sleep
DrainWaitsOnce(node_id, start_time) ==
    /\ nodes[node_id].current_connections > 0
    /\ wall_clock - start_time < 1

\* the condition of the while loop in _drain_node_connections
DrainWaits(node_id, start_time) ==
    /\ nodes[node_id].current_connections > 0
    /\ wall_clock - start_time < max_wait_time

\* remove_node up to the drain loop: an unknown node ends the call, a known one
\* enters _drain_node_connections, which reads the clock
remove_node_begin(node_id) ==
    /\ in_flight.drain.pc = "idle"
    /\ IF node_id \in DOMAIN nodes
       THEN /\ in_flight' = [in_flight EXCEPT !.drain =
                                 [pc |-> "draining", node |-> node_id,
                                  start_time |-> wall_clock, left |-> 0]]
            /\ lb_last' = LBCall("_drain_node_connections", node_id, TRUE)
       ELSE /\ lb_last' = LBCall("remove_node", node_id, FALSE)
            /\ UNCHANGED in_flight
    /\ UNCHANGED <<nodes, node_health, request_counters, response_times, algorithm,
                   current_node_index, routed, wall_clock>>

\* one turn of the drain loop: await asyncio.sleep(1)
drain_sleep ==
    LET drain == in_flight.drain
    IN  /\ drain.pc = "draining"
        /\ DrainWaits(drain.node, drain.start_time)
        /\ wall_clock' = wall_clock + 1
        /\ lb_last' = LBCall("_drain_node_connections", drain.node, TRUE)
        /\ UNCHANGED <<nodes, node_health, request_counters, response_times, algorithm,
                       current_node_index, routed, in_flight>>

\* the loop ends and remove_node drops the node's record
drain_finish ==
    LET drain == in_flight.drain
    IN  /\ drain.pc = "draining"
        /\ ~DrainWaits(drain.node, drain.start_time)
        /\ remove_node(drain.node)
        /\ in_flight' = [in_flight EXCEPT !.drain =
                             [drain EXCEPT !.pc = "returned",
                                           !.left = nodes[drain.node].current_connections]]
        /\ UNCHANGED wall_clock

RemoveNodeBegin == \E n \in NodeIds : remove_node_begin(n)

AddNode == \E n \in NodeIds : add_node(n)

\* remove_node of a node without connections: the drain loop does not wait
RemoveNode ==
    \E n \in NodeIds :
        /\ n \in DOMAIN nodes => nodes[n].current_connections = 0
        /\ remove_node(n)

ProbeBegin == \E n \in NodeIds : probe_begin(n)

ProbeResume == \E is_healthy \in BOOLEAN : probe_resume(is_healthy)

GetNode == \E h \in HashInputs : get_node(h[1], h[2])

SetAlgorithm ==
    \E a \in {"round_robin", "least_connections", "consistent_hash", "random"} :
        set_algorithm(a)

HealthMonitor == \E slow \in SUBSET DOMAIN nodes : _health_monitor(slow)

ConnectionPoolManager == _connection_pool_manager

RebalanceConnections == rebalance_connections

\* callers hold at most MaxHeld connections on a node before they ask for more
AcquireConnection ==
    \E n \in NodeIds :
        /\ n \in DOMAIN nodes => nodes[n].current_connections < MaxHeld
        /\ acquire_connection(n)

ReleaseConnection == \E n \in NodeIds : release_connection(n)

RecordRequest ==
    \E n \in NodeIds, success \in BOOLEAN :
        /\ n \in DOMAIN nodes => request_counters[n] < MaxRecorded
        /\ record_request(n, 1, success)

----------------------------------------------------------------------------
(* The auto-scaler *)

\* ScalingConfig defaults
min_nodes == 3
max_nodes == 20
scale_up_threshold == 85
scale_down_threshold == 30
scale_up_cooldown == 300
scale_down_cooldown == 600

\* requests per second per node in _get_request_rate_threshold
base_threshold == 1000

\* time.time() when the platform starts: long after the epoch the timestamps start at
StartTime == 1000

NoDecision == [decision_type |-> "none", agent_id |-> "", current_nodes |-> 0,
               target_nodes |-> 0, created |-> 0, executed |-> FALSE,
               successful |-> FALSE]

ScalingDecision(decision_type, agent_id, target_nodes) ==
    [decision_type |-> decision_type, agent_id |-> agent_id,
     current_nodes |-> current_nodes, target_nodes |-> target_nodes,
     created |-> wall_clock, executed |-> FALSE, successful |-> FALSE]

ScalerCall(op, metrics, decision, ok) ==
    [op |-> op, metrics |-> metrics, decision |-> decision, ok |-> ok,
     since_scale_up |-> wall_clock - last_scale_up,
     since_scale_down |-> wall_clock - last_scale_down]

NoMetrics == [cpu_usage_percent |-> 0, memory_usage_percent |-> 0,
              requests_per_second |-> 0]

\* the state after AutoScaler.__init__ and initialize()
AutoScalerInit ==
    /\ current_nodes = min_nodes
    /\ last_scale_up = 0
    /\ last_scale_down = 0
    /\ scaling_decisions = <<>>
    /\ scaling_config = [min_nodes |-> min_nodes, max_nodes |-> max_nodes]
    /\ wall_clock = StartTime
    /\ scaler_last = [op |-> "initialize", metrics |-> NoMetrics, decision |-> NoDecision,
                      ok |-> TRUE, since_scale_up |-> StartTime,
                      since_scale_down |-> StartTime]

\* AutoScaler._get_request_rate_threshold
_get_request_rate_threshold == base_threshold * current_nodes

InCooldownInclusive(current_time) ==
    \/ current_time - last_scale_up <= scale_up_cooldown
    \/ current_time - last_scale_down < scale_down_cooldown

\* the two cooldown checks of evaluate_scaling_needs
InCooldown(current_time) ==
    \/ current_time - last_scale_up < scale_up_cooldown
    \/ current_time - last_scale_down < scale_down_cooldown

\* AutoScaler.evaluate_scaling_needs: the decision, or NoDecision for None
evaluate_scaling_needs(metrics) ==
    LET cpu_usage == metrics.cpu_usage_percent
        memory_usage == metrics.memory_usage_percent
        request_rate == metrics.requests_per_second
        scale_up_needed == \/ cpu_usage > scale_up_threshold
                           \/ memory_usage > scale_up_threshold
                           \/ request_rate > _get_request_rate_threshold
        scale_down_needed == /\ cpu_usage < scale_down_threshold
                             /\ memory_usage < scale_down_threshold
                             /\ request_rate * 2 < _get_request_rate_threshold
                             /\ current_nodes > scaling_config.min_nodes
    IN  IF InCooldown(wall_clock) THEN NoDecision
        ELSE IF scale_up_needed /\ current_nodes < scaling_config.max_nodes
        THEN ScalingDecision("scale_up", "scaling_agent", Min(current_nodes + 1, scaling_config.max_nodes))
        ELSE IF scale_down_needed
        THEN ScalingDecision("scale_down", "scaling_agent", Max(current_nodes - 1, scaling_config.min_nodes))
        ELSE NoDecision

\* AutoScaler._scale_up: the cache manager has none of add_node, rebalance_cluster,
\* update_load_balancer_config and check_cluster_health, so the first of these
\* calls raises AttributeError and the method returns False
_scale_up(target_nodes) == FALSE

\* AutoScaler._scale_down: True when there is nothing to remove; otherwise the call
\* of the missing migrate_data_from_node raises and the method returns False
_scale_down(target_nodes) == current_nodes - target_nodes <= 0

\* what execute_scaling_decision returns for a decision of a known type
Success(decision) ==
    IF decision.decision_type = "scale_up" THEN _scale_up(decision.target_nodes)
    ELSE _scale_down(decision.target_nodes)

\* AutoScaler.execute_scaling_decision for a decision of type scale_up or scale_down:
\* history, cooldown timestamp and current_nodes are written whatever _scale_up or
\* _scale_down returned
execute_scaling_decision(decision) ==
    LET success == Success(decision)
        done == [decision EXCEPT !.executed = TRUE, !.successful = success]
        stored == Append(scaling_decisions, done)
    IN  /\ scaling_decisions' = IF Len(stored) > 100 THEN Tail(stored) ELSE stored
        /\ last_scale_up' = IF decision.decision_type = "scale_up"
                            THEN wall_clock ELSE last_scale_up
        /\ last_scale_down' = IF decision.decision_type = "scale_up"
                              THEN last_scale_down ELSE wall_clock
        /\ current_nodes' = decision.target_nodes
        /\ UNCHANGED scaling_config

\* one pass of CacheOrchestrator._scaling_agent_loop: evaluate, then execute what
\* evaluate_scaling_needs decided
_scaling_agent_loop(metrics) ==
    LET decision == evaluate_scaling_needs(metrics)
    IN  IF decision = NoDecision
        THEN /\ scaler_last' = ScalerCall("_scaling_agent_loop", metrics, NoDecision, FALSE)
             /\ UNCHANGED <<scaling_config, current_nodes, last_scale_up, last_scale_down,
                            scaling_decisions, wall_clock>>
        ELSE /\ execute_scaling_decision(decision)
             /\ scaler_last' = ScalerCall("_scaling_agent_loop", metrics, decision,
                                          Success(decision))
             /\ UNCHANGED wall_clock

\* AutoScaler.force_scale
force_scale(target_nodes) ==
    IF target_nodes < scaling_config.min_nodes \/ target_nodes > scaling_config.max_nodes
    THEN /\ scaler_last' = ScalerCall("force_scale", NoMetrics, NoDecision, FALSE)
         /\ UNCHANGED <<scaling_config, current_nodes, last_scale_up, last_scale_down,
                        scaling_decisions, wall_clock>>
    ELSE LET decision == IF target_nodes > current_nodes
                         THEN ScalingDecision("scale_up", "manual", target_nodes)
                         ELSE ScalingDecision("scale_down", "manual", target_nodes)
         IN  /\ execute_scaling_decision(decision)
             /\ scaler_last' = ScalerCall("force_scale", NoMetrics, decision,
                                          Success(decision))
             /\ UNCHANGED wall_clock

\* a call of execute_scaling_decision that would wait at an await of _scale_up
\* or _scale_down
ExecutionSuspendsInScaling == TRUE

\* whether a call of execute_scaling_decision gives up the event loop before it
\* returns: its only awaits are _scale_up and _scale_down, and these raise or
\* return before they reach an await that waits
ExecutionSuspends == FALSE

\* the event loop lets another caller in only while nobody is inside
\* execute_scaling_decision or whoever is inside waits at an await
MayEnterExecution == in_flight.executions = <<>> \/ ExecutionSuspends

Execution(caller, metrics, decision) ==
    [caller |-> caller, metrics |-> metrics, decision |-> decision]

\* _scaling_agent_loop up to its call of execute_scaling_decision
scaling_loop_call(metrics) ==
    LET decision == evaluate_scaling_needs(metrics)
    IN  /\ MayEnterExecution
        /\ IF decision = NoDecision
           THEN /\ scaler_last' = ScalerCall("_scaling_agent_loop", metrics, NoDecision, FALSE)
                /\ UNCHANGED in_flight
           ELSE /\ in_flight' = [in_flight EXCEPT !.executions =
                                     Append(@, Execution("_scaling_agent_loop", metrics, decision))]
                /\ scaler_last' = ScalerCall("execute_scaling_decision", metrics, decision, FALSE)
        /\ UNCHANGED <<scaling_config, current_nodes, last_scale_up, last_scale_down, scaling_decisions,
                       wall_clock>>

\* force_scale up to its call of execute_scaling_decision
force_scale_call(target_nodes) ==
    LET decision == IF target_nodes > current_nodes
                    THEN ScalingDecision("scale_up", "manual", target_nodes)
                    ELSE ScalingDecision("scale_down", "manual", target_nodes)
    IN  /\ MayEnterExecution
        /\ IF target_nodes < scaling_config.min_nodes \/ target_nodes > scaling_config.max_nodes
           THEN /\ scaler_last' = ScalerCall("force_scale", NoMetrics, NoDecision, FALSE)
                /\ UNCHANGED in_flight
           ELSE /\ in_flight' = [in_flight EXCEPT !.executions =
                                     Append(@, Execution("force_scale", NoMetrics, decision))]
                /\ scaler_last' = ScalerCall("execute_scaling_decision", NoMetrics, decision, FALSE)
        /\ UNCHANGED <<scaling_config, current_nodes, last_scale_up, last_scale_down, scaling_decisions,
                       wall_clock>>

\* a call of execute_scaling_decision runs to its return
execution_return(i) ==
    LET execution == in_flight.executions[i]
    IN  /\ execute_scaling_decision(execution.decision)
        /\ in_flight' = [in_flight EXCEPT !.executions =
                             SubSeq(@, 1, i - 1) \o SubSeq(@, i + 1, Len(@))]
        /\ scaler_last' = ScalerCall(execution.caller, execution.metrics,
                                     execution.decision, Success(execution.decision))
        /\ UNCHANGED wall_clock

\* the clock moves on by seconds
Advance(seconds) ==
    /\ wall_clock' = wall_clock + seconds
    /\ scaler_last' = [ScalerCall("advance", NoMetrics, NoDecision, TRUE)
                          EXCEPT !.since_scale_up = wall_clock + seconds - last_scale_up,
                                 !.since_scale_down = wall_clock + seconds - last_scale_down]
    /\ UNCHANGED <<scaling_config, current_nodes, last_scale_up, last_scale_down, scaling_decisions>>

\* AutoScaler.set_scaling_config for the keys min_nodes and max_nodes: each key
\* present is assigned as given, with no check against the other bound or
\* against current_nodes
set_scaling_config(config) ==
    /\ scaling_config' =
           [key \in DOMAIN scaling_config |->
               IF key \in DOMAIN config THEN config[key] ELSE scaling_config[key]]
    /\ scaler_last' = ScalerCall("set_scaling_config", NoMetrics, NoDecision, TRUE)
    /\ UNCHANGED <<current_nodes, last_scale_up, last_scale_down, scaling_decisions,
                   wall_clock>>

\* the configurations an operator submits
ScalingConfigs ==
    UNION {[keys -> {min_nodes - 1, min_nodes + 2, max_nodes}] :
              keys \in SUBSET {"min_nodes", "max_nodes"}}

SetScalingConfig == \E config \in ScalingConfigs : set_scaling_config(config)

\* the metrics a scaling cycle sees
MetricsInputs ==
    {[cpu_usage_percent |-> 90, memory_usage_percent |-> 50, requests_per_second |-> 0],
     [cpu_usage_percent |-> 50, memory_usage_percent |-> 90, requests_per_second |-> 0],
     [cpu_usage_percent |-> 50, memory_usage_percent |-> 50, requests_per_second |-> 0],
     [cpu_usage_percent |-> 10, memory_usage_percent |-> 10, requests_per_second |-> 0]}

ForceTargets == {min_nodes - 1, min_nodes, min_nodes + 1, max_nodes}

AdvanceInputs == {1, scale_up_cooldown - 1}

ScalingCycle == \E metrics \in MetricsInputs : _scaling_agent_loop(metrics)

ForceScale == \E target_nodes \in ForceTargets : force_scale(target_nodes)

AdvanceClock == \E seconds \in AdvanceInputs : Advance(seconds)

\* metrics on, below and above the thresholds of the decision rule
BoundaryMetrics ==
    [cpu_usage_percent : {10, scale_down_threshold, scale_up_threshold, 90},
     memory_usage_percent : {10, scale_down_threshold, scale_up_threshold},
     requests_per_second : {0, (base_threshold * min_nodes) \div 2,
                            base_threshold * min_nodes}]

DecisionCycle == \E metrics \in BoundaryMetrics : _scaling_agent_loop(metrics)

ScalingLoopCall == \E metrics \in MetricsInputs : scaling_loop_call(metrics)

ForceScaleCall == \E target_nodes \in ForceTargets : force_scale_call(target_nodes)

ExecutionReturn == \E i \in DOMAIN in_flight.executions : execution_return(i)

----------------------------------------------------------------------------
(* The health monitor *)

\* MonitoringConfig.alert_thresholds and the literals of _check_system_alerts
cpu_usage_threshold == 85
memory_usage_threshold == 90
disk_usage_threshold == 90
critical_usage == 95

\* the pause of _system_monitor between two samples, in seconds
system_check_interval == 30

\* psutil.cpu_percent(interval=1) blocks for a second
cpu_interval == 1

Components == {"system", "redis", "network", "cache_manager"}

NoTime == 0 - 1

\* Alert as _create_alert builds it at current_time; id stands for
\* f"alert_{int(time.time())}"
Alert(current_time, title, severity, source, category) ==
    [id |-> current_time, title |-> title, severity |-> severity, source |-> source,
     category |-> category, created_at |-> current_time,
     acknowledged |-> FALSE, acknowledged_at |-> NoTime,
     resolved |-> FALSE, resolved_at |-> NoTime]

MonitorCall(op, alert_id, ok) == [op |-> op, alert_id |-> alert_id, ok |-> ok]

\* the state after HealthMonitor.__init__ and _initialize_health_checks
HealthMonitorInit ==
    /\ alerts = <<>>
    /\ system_health = [c \in Components |-> "unknown"]
    /\ performance_metrics = [cpu_usage |-> <<>>, memory_usage |-> <<>>]
    /\ monitor_last = MonitorCall("initialize", NoTime, TRUE)

\* keep the last 1000 entries of a list
Last1000(list) == IF Len(list) > 1000 THEN Tail(list) ELSE list

\* HealthMonitor._create_alert: the alert log after the call
_create_alert(log, current_time, title, severity, source, category) ==
    Last1000(Append(log, Alert(current_time, title, severity, source, category)))

\* HealthMonitor._check_system_alerts: the alert log after the call
_check_system_alerts(log, current_time, cpu_percent, memory_percent, disk_percent) ==
    LET after_cpu ==
            IF cpu_percent > cpu_usage_threshold
            THEN _create_alert(log, current_time, "High CPU Usage",
                               IF cpu_percent < critical_usage THEN "warning" ELSE "critical",
                               "system_monitor", "performance")
            ELSE log
        after_memory ==
            IF memory_percent > memory_usage_threshold
            THEN _create_alert(after_cpu, current_time, "High Memory Usage",
                               IF memory_percent < critical_usage THEN "warning"
                               ELSE "critical",
                               "system_monitor", "performance")
            ELSE after_cpu
    IN  IF disk_percent > disk_usage_threshold
        THEN _create_alert(after_memory, current_time, "High Disk Usage", "warning",
                           "system_monitor", "storage")
        ELSE after_memory

\* one pass of HealthMonitor._system_monitor with the sample psutil returns: the
\* measurement blocks for cpu_interval, the alerts are raised, and the pass ends
\* with the sleep of system_check_interval
_system_monitor(cpu_percent, memory_percent, disk_percent) ==
    /\ wall_clock' = wall_clock + cpu_interval + system_check_interval
    /\ performance_metrics' =
           [cpu_usage |-> Last1000(Append(performance_metrics.cpu_usage, cpu_percent)),
            memory_usage |-> Last1000(Append(performance_metrics.memory_usage,
                                             memory_percent))]
    /\ system_health' =
           [system_health EXCEPT !["system"] =
               IF cpu_percent < cpu_usage_threshold /\ memory_percent < memory_usage_threshold
               THEN "healthy" ELSE "unhealthy"]
    /\ alerts' = _check_system_alerts(alerts, wall_clock + cpu_interval,
                                       cpu_percent, memory_percent, disk_percent)
    /\ monitor_last' = MonitorCall("_system_monitor", NoTime, TRUE)

\* the position of the first alert with the id, or 0
FirstWithId(alert_id) ==
    IF \E i \in DOMAIN alerts : alerts[i].id = alert_id
    THEN CHOOSE i \in DOMAIN alerts :
             /\ alerts[i].id = alert_id
             /\ \A j \in 1..(i - 1) : alerts[j].id # alert_id
    ELSE 0

\* HealthMonitor.acknowledge_alert
acknowledge_alert(alert_id) ==
    LET i == FirstWithId(alert_id)
    IN  /\ alerts' = IF i = 0 THEN alerts
                     ELSE [alerts EXCEPT ![i].acknowledged = TRUE,
                                         ![i].acknowledged_at = wall_clock]
        /\ monitor_last' = MonitorCall("acknowledge_alert", alert_id, i # 0)
        /\ UNCHANGED <<system_health, performance_metrics>>

\* HealthMonitor.resolve_alert
resolve_alert(alert_id) ==
    LET i == FirstWithId(alert_id)
    IN  /\ alerts' = IF i = 0 THEN alerts
                     ELSE [alerts EXCEPT ![i].resolved = TRUE,
                                         ![i].resolved_at = wall_clock]
        /\ monitor_last' = MonitorCall("resolve_alert", alert_id, i # 0)
        /\ UNCHANGED <<system_health, performance_metrics>>

\* one pass of HealthMonitor._alert_manager: info alerts that nobody acknowledged
\* are resolved an hour after their creation
_alert_manager ==
    /\ alerts' = [i \in DOMAIN alerts |->
                     IF /\ ~alerts[i].acknowledged
                        /\ alerts[i].severity = "info"
                        /\ wall_clock - alerts[i].created_at > 3600
                     THEN [alerts[i] EXCEPT !.resolved = TRUE, !.resolved_at = wall_clock]
                     ELSE alerts[i]]
    /\ monitor_last' = MonitorCall("_alert_manager", NoTime, TRUE)
    /\ UNCHANGED <<system_health, performance_metrics>>

\* the samples psutil returns: <<cpu, memory, disk>> in percent
Samples == {<<50, 50, 50>>, <<90, 50, 50>>, <<90, 95, 50>>, <<96, 50, 95>>}

SystemMonitor == \E sample \in Samples : _system_monitor(sample[1], sample[2], sample[3])

\* callers name an alert of the log or an id that was never given
AlertIds == {alerts[i].id : i \in DOMAIN alerts} \cup {0}

AcknowledgeAlert == \E alert_id \in AlertIds : acknowledge_alert(alert_id)

ResolveAlert == \E alert_id \in AlertIds : resolve_alert(alert_id)

AlertManager == _alert_manager

\* AlertSeverity
AlertSeverities == {"info", "warning", "error", "critical"}

\* a component raises an alert of any severity through _create_alert
CreateAlert ==
    \E severity \in AlertSeverities :
        /\ alerts' = _create_alert(alerts, wall_clock, "Notice", severity,
                                   "operator", "general")
        /\ monitor_last' = MonitorCall("_create_alert", wall_clock, TRUE)
        /\ UNCHANGED <<system_health, performance_metrics>>

\* the alert manager sleeps 60 seconds between two passes; 3660 seconds are
\* 61 passes over a log that nobody touches
AlertSleepInputs == {60, 3660}

AlertSleep == \E seconds \in AlertSleepInputs : Advance(seconds)

\* time passes between two calls
MonitorSleep == \E seconds \in {1, system_check_interval} : Advance(seconds)

----------------------------------------------------------------------------
(* The orchestrator's life cycle: start, stop, shutdown and the loop tasks *)

\* the agents in the order in which _initialize_agents enters them in self.agents
AgentIds == <<"scaling_agent", "optimization_agent", "healing_agent", "prediction_agent">>

AgentSet == {AgentIds[i] : i \in DOMAIN AgentIds}

\* the loops that initialize() of the orchestrator and of each component hands to
\* asyncio.create_task, in the order of creation
InitialLoops ==
    <<"cache_manager._metrics_collector", "auto_scaler._scaling_monitor",
      "load_balancer._health_monitor", "load_balancer._connection_pool_manager",
      "health_monitor._system_monitor", "health_monitor._redis_monitor",
      "health_monitor._alert_manager", "_system_monitor", "_performance_collector">>

\* the loops whose head is `while self.running`
RunningLoops == {"_system_monitor", "_performance_collector"}

\* an asyncio task around a loop: suspended at an await (or not yet run),
\* cancel_requested once Task.cancel() was called on it, done when its coroutine
\* has returned or was cancelled
LoopTask(loop) == [loop |-> loop, state |-> "suspended"]

IdleStop == [pc |-> "idle", index |-> 0, task |-> 0, shutdown |-> FALSE]

OrchestratorCall(op, task) == [op |-> op, task |-> task]

\* the state after CacheOrchestrator.__init__ and initialize()
OrchestratorInit ==
    orchestrator = [running |-> FALSE,
                    agents |-> [a \in AgentSet |-> "stopped"],
                    agent_tasks |-> <<>>,
                    tasks |-> [i \in DOMAIN InitialLoops |-> LoopTask(InitialLoops[i])],
                    stop |-> IdleStop,
                    stopped |-> <<>>,
                    starts |-> 0,
                    shut_down |-> FALSE,
                    last |-> OrchestratorCall("initialize", 0)]

\* CacheOrchestrator._start_agent: a new loop task takes the agent's entry in
\* agent_tasks; a task already registered there is neither cancelled nor awaited
_start_agent(o, agent_id) ==
    [o EXCEPT !.tasks = Append(@, LoopTask(agent_id)),
              !.agent_tasks = DictSet(@, agent_id, Len(o.tasks) + 1),
              !.agents[agent_id] = "running"]

RECURSIVE _start_agents(_, _)
_start_agents(o, i) ==
    IF i > Len(AgentIds) THEN o
    ELSE _start_agents(_start_agent(o, AgentIds[i]), i + 1)

\* CacheOrchestrator.start: the components' start() do nothing, the agents are
\* started and running is set; nothing in it suspends
start ==
    /\ orchestrator.starts < MaxStarts
    /\ ~orchestrator.shut_down
    /\ orchestrator' = [_start_agents(orchestrator, 1)
                           EXCEPT !.running = TRUE,
                                  !.starts = @ + 1,
                                  !.last = OrchestratorCall("start", 0)]

\* the order in which stop() calls the components' stop()
ComponentStops == <<"health_monitor", "load_balancer", "auto_scaler">>

\* _stop_agents from the i-th entry of agent_tasks on, up to the next await that
\* suspends: a task that is done is awaited without suspending; after the last
\* entry agent_tasks is cleared and stop() goes on to the components
RECURSIVE _stop_agents(_, _)
_stop_agents(o, i) ==
    IF i > Len(o.agent_tasks)
    THEN [o EXCEPT !.agent_tasks = <<>>,
                   !.stopped = @ \o ComponentStops,
                   !.shut_down = o.stop.shutdown,
                   !.stop = IdleStop,
                   !.last = OrchestratorCall(IF o.stop.shutdown THEN "shutdown" ELSE "stop", 0)]
    ELSE LET agent_id == o.agent_tasks[i][1]
             task == o.agent_tasks[i][2]
         IN  IF o.tasks[task].state = "done"
             THEN _stop_agents([o EXCEPT !.agents[agent_id] = "stopped",
                                         !.stopped = Append(@, agent_id)], i + 1)
             ELSE [o EXCEPT !.tasks[task].state = "cancel_requested",
                            !.stop.pc = "awaiting",
                            !.stop.index = i,
                            !.stop.task = task,
                            !.last = OrchestratorCall("task.cancel", task)]

\* CacheOrchestrator.stop (inside shutdown when shutdown is TRUE), up to its
\* first await that suspends
stop_begin(shutdown) ==
    /\ orchestrator.stop.pc = "idle"
    /\ ~orchestrator.shut_down
    /\ orchestrator' = _stop_agents([orchestrator EXCEPT !.running = FALSE,
                                                         !.stopped = <<>>,
                                                         !.stop.shutdown = shutdown], 1)

\* the awaited task has ended: _stop_agents marks the agent and goes on
stop_resume ==
    LET o == orchestrator
        agent_id == o.agent_tasks[o.stop.index][1]
    IN  /\ o.stop.pc = "awaiting"
        /\ o.tasks[o.stop.task].state = "done"
        /\ orchestrator' = _stop_agents([o EXCEPT !.agents[agent_id] = "stopped",
                                                  !.stopped = Append(@, agent_id)],
                                        o.stop.index + 1)

\* the head of the loop a task runs: while self.running [and the agent is
\* RUNNING], or while True
LoopGoesOn(o, loop) ==
    IF loop \in AgentSet THEN o.running /\ o.agents[loop] = "running"
    ELSE IF loop \in RunningLoops THEN o.running
    ELSE TRUE

\* the event loop resumes a task: a requested cancellation ends it at its await;
\* otherwise the loop head is tested, and the task runs one cycle up to its
\* sleep or returns
task_step(task) ==
    LET o == orchestrator
        t == o.tasks[task]
    IN  /\ t.state # "done"
        /\ orchestrator' =
               IF t.state = "cancel_requested"
               THEN [o EXCEPT !.tasks[task].state = "done",
                              !.last = OrchestratorCall("cancelled", task)]
               ELSE IF LoopGoesOn(o, t.loop)
               THEN [o EXCEPT !.last = OrchestratorCall("cycle", task)]
               ELSE [o EXCEPT !.tasks[task].state = "done",
                              !.last = OrchestratorCall("return", task)]

\* HealingAgent.thresholds['cpu_warning'] and ['memory_warning']
cpu_warning == 85
memory_warning == 85

\* HealingAgent._update_system_health, called by the agent's _health_monitor_loop
\* with the sample psutil returns after its one-second measurement: the agent
\* assigns the entries 'cpu' and 'memory' of the health monitor's system_health
_update_system_health(cpu_usage, memory_usage) ==
    /\ system_health' =
           [c \in DOMAIN system_health \cup {"cpu", "memory"} |->
               IF c = "cpu"
               THEN IF cpu_usage < cpu_warning THEN "healthy" ELSE "warning"
               ELSE IF c = "memory"
               THEN IF memory_usage < memory_warning THEN "healthy" ELSE "warning"
               ELSE system_health[c]]
    /\ wall_clock' = wall_clock + 1
    /\ orchestrator' = [orchestrator EXCEPT
                           !.last = OrchestratorCall("HealingAgent._update_system_health", 0)]

\* the methods of the agents that run in the model
AgentOps == {"HealingAgent._update_system_health"}

UpdateSystemHealth ==
    \E cpu_usage \in {50, 90}, memory_usage \in {50, 90} :
        _update_system_health(cpu_usage, memory_usage)

Start == start

Stop == \E shutdown \in BOOLEAN : stop_begin(shutdown)

StopResume == stop_resume

TaskStep == \E task \in DOMAIN orchestrator.tasks : task_step(task)

----------------------------------------------------------------------------
(* The components as state machines *)

\* the cache manager runs while the load balancer rests
CacheOnly == UNCHANGED <<backup, in_flight, orchestrator, lb_vars, scaler_vars, monitor_vars>>

\* the load balancer runs while the cache manager rests
LoadBalancerOnly ==
    UNCHANGED <<tenants, tenant_metrics, tenant_connections, rate_limiters, redis,
                now, last, written, backup, orchestrator, in_flight, scaler_vars, monitor_vars>>

Init ==
    CacheInit /\ LoadBalancerInit /\ AutoScalerInit /\ HealthMonitorInit /\ OrchestratorInit

Next ==
    \/ Step /\ CreateTenant /\ CacheOnly
    \/ Step /\ DeleteTenant /\ CacheOnly
    \/ Step /\ ClearTenantData /\ CacheOnly
    \/ Step /\ Get /\ CacheOnly
    \/ Step /\ Set /\ CacheOnly
    \/ Step /\ Delete /\ CacheOnly
    \/ Step /\ Incr /\ CacheOnly
    \/ Step /\ Decr /\ CacheOnly
    \/ Step /\ MGet /\ CacheOnly
    \/ Step /\ MSet /\ CacheOnly
    \/ Step /\ Tick /\ CacheOnly

Spec == Init /\ [][Next]_vars

\* a call that may replace the snapshot while the other components rest
KeyspaceOnly == UNCHANGED <<in_flight, orchestrator, lb_vars, scaler_vars, monitor_vars>>

\* the data-plane calls together with backup and restore
KeyspaceNext ==
    \/ Step /\ Get /\ CacheOnly
    \/ Step /\ Set /\ CacheOnly
    \/ Step /\ Delete /\ CacheOnly
    \/ Step /\ Incr /\ CacheOnly
    \/ Step /\ Decr /\ CacheOnly
    \/ Step /\ MGet /\ CacheOnly
    \/ Step /\ MSet /\ CacheOnly
    \/ Step /\ Exists /\ CacheOnly
    \/ Step /\ ExpireKey /\ CacheOnly
    \/ Step /\ Ttl /\ CacheOnly
    \/ Step /\ BackupTenantData /\ KeyspaceOnly
    \/ Step /\ RestoreTenantData /\ KeyspaceOnly
    \/ Step /\ Tick /\ CacheOnly

KeyspaceSpec == Init /\ [][KeyspaceNext]_vars

\* the key space with a restore that can fail half-way
RestoreNext ==
    \/ KeyspaceNext
    \/ Step /\ RestoreTenantDataRaises /\ KeyspaceOnly

RestoreSpec == Init /\ [][RestoreNext]_vars

\* the coroutines run while the clock, the histories and the other components rest
CoroutinesOnly ==
    UNCHANGED <<now, last, written, steps, backup, orchestrator, lb_vars, scaler_vars, monitor_vars>>

\* one writer and one delete_tenant, interleaved at their awaits
InterleavingNext ==
    \/ SetBegin /\ CoroutinesOnly
    \/ MSetBegin /\ CoroutinesOnly
    \/ writer_redis /\ CoroutinesOnly
    \/ writer_resume /\ CoroutinesOnly
    \/ DeleteTenantBegin /\ CoroutinesOnly
    \/ delete_tenant_keys /\ CoroutinesOnly
    \/ delete_tenant_del_keys /\ CoroutinesOnly
    \/ delete_tenant_del_record /\ CoroutinesOnly
    \/ delete_tenant_resume /\ CoroutinesOnly

InterleavingSpec == Init /\ [][InterleavingNext]_vars

\* the orchestrator in front of a cache manager that is also called directly
OrchestratorNext ==
    \/ Step /\ ExecuteCommand /\ CacheOnly
    \/ Step /\ CreateTenant /\ CacheOnly
    \/ Step /\ Set /\ CacheOnly
    \/ Step /\ Delete /\ CacheOnly
    \/ Step /\ Tick /\ CacheOnly

OrchestratorSpec == Init /\ [][OrchestratorNext]_vars

FreshStart ==
    InitWith({}) /\ LoadBalancerInit /\ AutoScalerInit /\ HealthMonitorInit /\ OrchestratorInit

\* connection accounting: callers, the pool manager and rebalancing
ConnectionsNext ==
    \/ AddNode /\ LoadBalancerOnly /\ UNCHANGED steps
    \/ AcquireConnection /\ LoadBalancerOnly /\ UNCHANGED steps
    \/ ReleaseConnection /\ LoadBalancerOnly /\ UNCHANGED steps
    \/ ConnectionPoolManager /\ LoadBalancerOnly /\ UNCHANGED steps
    \/ RebalanceConnections /\ LoadBalancerOnly /\ UNCHANGED steps

ConnectionsSpec == FreshStart /\ [][ConnectionsNext]_vars

\* one more load balancer call, while the bound on a routing history allows
RoutingStep == steps < MaxCalls /\ steps' = steps + 1

\* routing: node selection while nodes come, go and change health
RoutingNext ==
    \/ RoutingStep /\ GetNode /\ LoadBalancerOnly
    \/ RoutingStep /\ SetAlgorithm /\ LoadBalancerOnly
    \/ RoutingStep /\ AddNode /\ LoadBalancerOnly
    \/ RoutingStep /\ RemoveNode /\ LoadBalancerOnly
    \/ RoutingStep /\ HealthMonitor /\ LoadBalancerOnly
    \/ RoutingStep /\ AcquireConnection /\ LoadBalancerOnly
    \/ RoutingStep /\ RecordRequest /\ LoadBalancerOnly

RoutingSpec == FreshStart /\ [][RoutingNext]_vars

\* one more call, while the bound on a run of selections allows
SelectionStep == steps < MaxSelectionSteps /\ steps' = steps + 1

\* selection while nodes come and go and take connections
SelectionNext ==
    \/ SelectionStep /\ GetNode /\ LoadBalancerOnly
    \/ SelectionStep /\ SetAlgorithm /\ LoadBalancerOnly
    \/ SelectionStep /\ AddNode /\ LoadBalancerOnly
    \/ SelectionStep /\ RemoveNode /\ LoadBalancerOnly
    \/ SelectionStep /\ AcquireConnection /\ LoadBalancerOnly

SelectionSpec == FreshStart /\ [][SelectionNext]_vars

\* a remove_node with its drain loop, while callers take and give back
\* connections; the clock is the one the auto-scaler reads
DrainOnly ==
    UNCHANGED <<tenants, tenant_metrics, tenant_connections, rate_limiters, redis,
                now, last, written, steps, backup, orchestrator, scaling_config, current_nodes,
                last_scale_up,
                last_scale_down, scaling_decisions, scaler_last, monitor_vars>>

DrainNext ==
    \/ RemoveNodeBegin /\ DrainOnly
    \/ drain_sleep /\ DrainOnly
    \/ drain_finish /\ DrainOnly
    \/ AddNode /\ LoadBalancerOnly /\ UNCHANGED steps
    \/ AcquireConnection /\ LoadBalancerOnly /\ UNCHANGED steps
    \/ ReleaseConnection /\ LoadBalancerOnly /\ UNCHANGED steps

DrainSpec == FreshStart /\ [][DrainNext]_vars

\* the load balancer's calls and one health probe in flight
ProbeOnly ==
    UNCHANGED <<tenants, tenant_metrics, tenant_connections, rate_limiters, redis,
                now, last, written, backup, orchestrator, scaler_vars, monitor_vars>>

\* routing while a health probe sleeps
ProbeNext ==
    \/ RoutingStep /\ ProbeBegin /\ ProbeOnly
    \/ RoutingStep /\ ProbeResume /\ ProbeOnly
    \/ RoutingStep /\ GetNode /\ LoadBalancerOnly
    \/ RoutingStep /\ SetAlgorithm /\ LoadBalancerOnly
    \/ RoutingStep /\ AddNode /\ LoadBalancerOnly
    \/ RoutingStep /\ RemoveNode /\ LoadBalancerOnly

ProbeSpec == FreshStart /\ [][ProbeNext]_vars

\* the auto-scaler runs while the cache manager and the load balancer rest
AutoScalerOnly ==
    UNCHANGED <<tenants, tenant_metrics, tenant_connections, rate_limiters, redis,
                now, last, written, backup, orchestrator, in_flight, lb_vars, monitor_vars>>

\* one more scaling call or clock advance, while the bound on a run allows
ScalingStep == steps < MaxScalingSteps /\ steps' = steps + 1

AutoScalerNext ==
    \/ ScalingStep /\ ScalingCycle /\ AutoScalerOnly
    \/ ScalingStep /\ ForceScale /\ AutoScalerOnly
    \/ ScalingStep /\ AdvanceClock /\ AutoScalerOnly

AutoScalerSpec == FreshStart /\ [][AutoScalerNext]_vars

\* scaling while an operator changes the configuration
ConfigNext ==
    \/ ScalingStep /\ ScalingCycle /\ AutoScalerOnly
    \/ ScalingStep /\ ForceScale /\ AutoScalerOnly
    \/ ScalingStep /\ SetScalingConfig /\ AutoScalerOnly
    \/ ScalingStep /\ AdvanceClock /\ AutoScalerOnly

ConfigSpec == FreshStart /\ [][ConfigNext]_vars

\* the decision rule on boundary metrics, at the node counts force_scale leaves
DecisionNext ==
    \/ ScalingStep /\ DecisionCycle /\ AutoScalerOnly
    \/ ScalingStep /\ ForceScale /\ AutoScalerOnly
    \/ ScalingStep /\ AdvanceClock /\ AutoScalerOnly

DecisionSpec == FreshStart /\ [][DecisionNext]_vars

\* the callers of execute_scaling_decision run while the other components rest
ExecutionOnly ==
    UNCHANGED <<tenants, tenant_metrics, tenant_connections, rate_limiters, redis,
                now, last, written, backup, orchestrator, lb_vars, monitor_vars>>

\* the scaling loop and force_scale as coroutines of one event loop
ExecutionNext ==
    \/ ScalingStep /\ ScalingLoopCall /\ ExecutionOnly
    \/ ScalingStep /\ ForceScaleCall /\ ExecutionOnly
    \/ ScalingStep /\ ExecutionReturn /\ ExecutionOnly
    \/ ScalingStep /\ AdvanceClock /\ AutoScalerOnly

ExecutionSpec == FreshStart /\ [][ExecutionNext]_vars

\* the health monitor runs while the other components rest; the clock is shared with
\* the auto-scaler
HealthMonitorOnly ==
    UNCHANGED <<tenants, tenant_metrics, tenant_connections, rate_limiters, redis,
                now, last, written, backup, orchestrator, in_flight, lb_vars, scaling_config, current_nodes, last_scale_up,
                last_scale_down, scaling_decisions>>

\* one more health monitor call or sleep, while the bound on a run allows
MonitorStep == steps < MaxMonitorSteps /\ steps' = steps + 1

HealthMonitorNext ==
    \/ MonitorStep /\ SystemMonitor /\ HealthMonitorOnly
                   /\ UNCHANGED scaler_last
    \/ MonitorStep /\ AcknowledgeAlert /\ HealthMonitorOnly
                   /\ UNCHANGED <<wall_clock, scaler_last>>
    \/ MonitorStep /\ ResolveAlert /\ HealthMonitorOnly
                   /\ UNCHANGED <<wall_clock, scaler_last>>
    \/ MonitorStep /\ AlertManager /\ HealthMonitorOnly
                   /\ UNCHANGED <<wall_clock, scaler_last>>
    \/ MonitorStep /\ MonitorSleep /\ HealthMonitorOnly
                   /\ monitor_last' = MonitorCall("sleep", NoTime, TRUE)
                   /\ UNCHANGED <<alerts, system_health, performance_metrics>>

HealthMonitorSpec == FreshStart /\ [][HealthMonitorNext]_vars

\* the life of alerts of every severity under the alert manager
AlertNext ==
    \/ MonitorStep /\ CreateAlert /\ HealthMonitorOnly
                   /\ UNCHANGED <<wall_clock, scaler_last>>
    \/ MonitorStep /\ AcknowledgeAlert /\ HealthMonitorOnly
                   /\ UNCHANGED <<wall_clock, scaler_last>>
    \/ MonitorStep /\ ResolveAlert /\ HealthMonitorOnly
                   /\ UNCHANGED <<wall_clock, scaler_last>>
    \/ MonitorStep /\ AlertManager /\ HealthMonitorOnly
                   /\ UNCHANGED <<wall_clock, scaler_last>>
    \/ MonitorStep /\ AlertSleep /\ HealthMonitorOnly
                   /\ monitor_last' = MonitorCall("sleep", NoTime, TRUE)
                   /\ UNCHANGED <<alerts, system_health, performance_metrics>>

AlertSpec == FreshStart /\ [][AlertNext]_vars

\* the healing agent's health loop runs
HealingOnly ==
    UNCHANGED <<tenants, tenant_metrics, tenant_connections, rate_limiters, redis,
                now, last, written, backup, in_flight, lb_vars, scaling_config, current_nodes, last_scale_up,
                last_scale_down, scaling_decisions, scaler_last, alerts,
                performance_metrics, monitor_last>>

\* the health monitor together with the healing agent's health loop
HealingNext ==
    \/ HealthMonitorNext
    \/ MonitorStep /\ UpdateSystemHealth /\ HealingOnly

HealingSpec == FreshStart /\ [][HealingNext]_vars

\* the orchestrator runs while the components' tables rest
OrchestratorOnly ==
    UNCHANGED <<cache_vars, backup, in_flight, lb_vars, scaler_vars, monitor_vars>>

\* start, stop and shutdown called by the operator, and the event loop that
\* resumes the loop tasks
LifecycleNext ==
    \/ Start /\ OrchestratorOnly
    \/ Stop /\ OrchestratorOnly
    \/ StopResume /\ OrchestratorOnly
    \/ TaskStep /\ OrchestratorOnly

LifecycleSpec == FreshStart /\ [][LifecycleNext]_vars

\* the event loop resumes every task that is ready, and a stop that can go on
LifecycleFairSpec ==
    /\ LifecycleSpec
    /\ WF_vars(StopResume /\ OrchestratorOnly)
    /\ \A task \in 1..(Len(InitialLoops) + (MaxStarts + 1) * Len(AgentIds)) :
           WF_vars(task \in DOMAIN orchestrator.tasks /\ task_step(task) /\ OrchestratorOnly)

----------------------------------------------------------------------------
(* Properties *)

DataOps == {"get", "set", "delete", "incr", "decr", "mget", "mset"}

\* what a get for (tenant_id, key) finds in store
StoredValue(store, tenant_id, key) ==
    IF Present(store, _get_cache_key(tenant_id, key))
    THEN json_loads(store[_get_cache_key(tenant_id, key)].value) ELSE PyNone

MemoryUsed(tenant_id) == tenant_metrics[tenant_id].memory_used_mb

MemoryLimit(tenant_id) == tenants[tenant_id].memory_limit_mb * MB

\* C1: a get(t, k) that passes the admission check and meets no backend failure,
\* issued after a successful set(t, k, v) with no delete, overwrite or expiry of k
\* by tenant t in between, returns v (as json.loads gives back what json.dumps
\* wrote).
C1_GetReturnsLastSet ==
    (/\ last.op = "get"
     /\ last.admitted
     /\ ~last.raised
     /\ written[<<last.tenant, last.key>>] # PyNone)
    => last.value = json_loads(json_dumps(written[<<last.tenant, last.key>>]))

\* C2: no set, delete or delete_tenant performed for a tenant t1 changes the
\* value that get returns for any key of another tenant t2.
C2_TenantIsolation ==
    [][last'.op \in {"set", "delete", "delete_tenant"} =>
          \A t2 \in (DOMAIN tenants \cap DOMAIN tenants') \ {last'.tenant} : \A k \in Keys :
              StoredValue(redis', t2, k) = StoredValue(redis, t2, k)]_vars

\* C3: a set whose encoded value size plus the tenant's memory_used_mb exceeds
\* memory_limit_mb is rejected and leaves the store and memory_used_mb unchanged.
C3_SetOverQuotaRejected ==
    [][(/\ last'.op = "set"
        /\ last'.tenant \in DOMAIN tenants
        /\ MemoryUsed(last'.tenant) + json_dumps(last'.arg).bytes > MemoryLimit(last'.tenant))
       => (/\ ~last'.ok
           /\ redis' = redis
           /\ tenants' = tenants
           /\ tenant_metrics'[last'.tenant].memory_used_mb = MemoryUsed(last'.tenant))]_vars

\* C3 witness: an admitted set was turned down because its value did not fit
C3_Witness ==
    /\ last.op = "set"
    /\ last.admitted
    /\ ~last.raised
    /\ ~last.ok
    /\ last.tenant \in DOMAIN tenants
    /\ MemoryUsed(last.tenant) + json_dumps(last.arg).bytes > MemoryLimit(last.tenant)
    /\ MemoryUsed(last.tenant) > 0

\* C4: no tenant's memory_used_mb ever exceeds its memory_limit_mb.
C4_MemoryWithinLimit ==
    \A t \in DOMAIN tenants : tenant_metrics[t].memory_used_mb <= tenants[t].memory_limit_mb * MB

\* C4 witness: a set or mset succeeded and left no room for another big value
C4_Witness ==
    /\ last.op \in {"set", "mset"}
    /\ last.ok
    /\ MemoryUsed(last.tenant) + BigChars > MemoryLimit(last.tenant)

\* C5: every tenant's memory_used_mb is greater than or equal to 0.
C5_MemoryNonNegative ==
    \A t \in DOMAIN tenant_metrics : tenant_metrics[t].memory_used_mb >= 0

\* C6: an operation that arrives less than 1 / requests_per_second seconds after
\* the last admitted operation of the same kind for the same tenant is rejected,
\* does not touch the backend and does not move the last-admitted timestamp.
C6_RateLimitedRejected ==
    [][(/\ last'.op \in DataOps
        /\ last'.tenant \in DOMAIN tenants
        /\ (now - LastRequest(last'.tenant, last'.op))
               * tenants[last'.tenant].requests_per_second < TicksPerSecond)
       => (/\ ~last'.ok
           /\ ~last'.admitted
           /\ redis' = redis
           /\ rate_limiters' = rate_limiters)]_vars

\* C6 witness: a call was turned down later than, but too soon after, the last
\* admitted call of its kind
C6_Witness ==
    /\ last.op \in DataOps
    /\ last.tenant \in DOMAIN tenants
    /\ ~last.admitted
    /\ <<last.tenant, last.op>> \in DOMAIN rate_limiters
    /\ now > rate_limiters[<<last.tenant, last.op>>]
    /\ (now - rate_limiters[<<last.tenant, last.op>>])
           * tenants[last.tenant].requests_per_second < TicksPerSecond

\* C7: create_tenant with an id that, lower-cased, already exists fails and leaves
\* the tenant record, the metrics and the stored keys unchanged.
C7_DuplicateCreateFails ==
    [][(last'.op = "create_tenant" /\ Lower(last'.tenant) \in DOMAIN tenants)
       => (/\ ~last'.ok
           /\ tenants' = tenants
           /\ tenant_metrics' = tenant_metrics
           /\ tenant_connections' = tenant_connections
           /\ redis' = redis)]_vars

\* C7 witness: a create under an id written differently from that of an existing
\* tenant that has requests counted and a key stored
C7_Witness ==
    /\ last.op = "create_tenant"
    /\ ~last.ok
    /\ last.tenant \notin DOMAIN tenants
    /\ Lower(last.tenant) \in DOMAIN tenants
    /\ tenant_metrics[Lower(last.tenant)].total_requests > 0
    /\ \E k \in Keys : Present(redis, _get_cache_key(Lower(last.tenant), k))

\* C8: a delete of an absent key (admitted, no backend failure) returns ok and
\* changes neither the store nor memory_used_mb.
C8_DeleteAbsentIsOk ==
    [][(/\ last'.op = "delete"
        /\ last'.admitted
        /\ ~last'.raised
        /\ ~Present(redis, _get_cache_key(last'.tenant, last'.key)))
       => (/\ last'.ok
           /\ redis' = redis
           /\ tenant_metrics'[last'.tenant].memory_used_mb = MemoryUsed(last'.tenant))]_vars

\* C9: after delete_tenant(id) returns success the store holds no key with prefix
\* cache:{id}: and no tenant:{id} record, and the tenant is in none of the tables.
C9_DeleteTenantErasesAll ==
    (last.op = "delete_tenant" /\ last.ok)
    => (/\ \A k \in DOMAIN redis : ~IsPrefix(CachePrefix \o last.tenant \o <<":">>, k)
        /\ TenantKey(last.tenant) \notin DOMAIN redis
        /\ last.tenant \notin DOMAIN tenants
        /\ last.tenant \notin DOMAIN tenant_metrics
        /\ last.tenant \notin DOMAIN tenant_connections)

\* C10: mset is all-or-nothing: a call whose summed encoded size plus
\* memory_used_mb exceeds memory_limit_mb fails; a failed call writes no key and
\* leaves memory_used_mb unchanged; a successful call writes every key and adds
\* exactly the summed size to memory_used_mb.
C10_MsetAllOrNothing ==
    [][last'.op = "mset" =>
          LET t == last'.tenant
              kv == last'.kv
              total == SumBytes(kv, DOMAIN kv)
          IN  /\ (t \in DOMAIN tenants /\ MemoryUsed(t) + total > MemoryLimit(t)) => ~last'.ok
              /\ ~last'.ok =>
                     /\ redis' = redis
                     /\ t \in DOMAIN tenant_metrics =>
                            tenant_metrics'[t].memory_used_mb = MemoryUsed(t)
              /\ last'.ok =>
                     /\ \A k \in DOMAIN kv :
                            /\ Present(redis', _get_cache_key(t, k))
                            /\ redis'[_get_cache_key(t, k)].value = json_dumps(kv[k])
                     /\ \A ck \in DOMAIN redis' \ {_get_cache_key(t, k) : k \in DOMAIN kv} :
                            Present(redis, ck) /\ redis'[ck] = redis[ck]
                     /\ tenant_metrics'[t].memory_used_mb = MemoryUsed(t) + total]_vars

\* C10 witness: an mset of two keys succeeded
C10_Witness ==
    /\ last.op = "mset"
    /\ last.ok
    /\ Cardinality(DOMAIN last.kv) = 2
    /\ \A k \in DOMAIN last.kv : Present(redis, _get_cache_key(last.tenant, k))

\* the vocabulary the command interface documents
DocumentedCommands ==
    {"create_tenant", "delete_tenant", "list_tenants", "get_tenant_details",
     "modify_tenant_quotas", "cache_get", "cache_set", "cache_delete", "get_metrics",
     "get_cluster_status", "scale_cluster", "get_scaling_status", "configure_scaling",
     "acknowledge_alert", "resolve_alert", "create_backup", "restore_backup",
     "health_check", "load_test"}

\* C11: execute_command dispatches exactly the documented vocabulary: a documented
\* command reaches a handler, and any other command string gets the unsuccessful
\* unknown-command reply and changes no state.
C11_ExactVocabulary ==
    [][last'.op = "execute_command" =>
          /\ last'.command \in DocumentedCommands => last'.reply.handler # ""
          /\ last'.command \notin DocumentedCommands =>
                 /\ ~last'.reply.success
                 /\ last'.reply.error = "Unknown command"
                 /\ UNCHANGED <<tenants, tenant_metrics, tenant_connections,
                                rate_limiters, redis>>]_vars

\* C12: in every reachable state of the load balancer, every node of the registry
\* has 0 <= current_connections <= max_connections.
C12_ConnectionsWithinBounds ==
    \A n \in DOMAIN nodes :
        /\ 0 <= nodes[n].current_connections
        /\ nodes[n].current_connections <= nodes[n].max_connections

\* C13: acquire_connection on a node that is at (or beyond) max_connections returns
\* False and leaves current_connections unchanged; on a node below max_connections
\* it returns True and increments current_connections by exactly 1.
C13_AcquireAtMaxUnavailable ==
    [][(lb_last'.op = "acquire_connection" /\ lb_last'.node \in DOMAIN nodes) =>
          LET n == lb_last'.node
          IN  IF nodes[n].current_connections >= nodes[n].max_connections
              THEN ~lb_last'.ok /\ nodes' = nodes
              ELSE /\ lb_last'.ok
                   /\ nodes' = [nodes EXCEPT ![n].current_connections = @ + 1]]_vars

\* an acquire_connection was refused on a node holding exactly max_connections
C13_Witness ==
    /\ lb_last.op = "acquire_connection"
    /\ ~lb_last.ok
    /\ lb_last.node \in DOMAIN nodes
    /\ nodes[lb_last.node].current_connections = nodes[lb_last.node].max_connections

\* C14: under the consistent_hash algorithm, while the set of healthy nodes stays
\* the same, a get_node for a (tenant_id, key) returns the node the earlier
\* get_node calls for that pair returned, whatever was called in between and
\* whatever the connection counters are.
C14_ConsistentHashDeterministic ==
    [][(/\ lb_last'.op = "get_node"
        /\ algorithm = "consistent_hash"
        /\ routed[<<lb_last'.tenant, lb_last'.key>>].calls > 0)
       => lb_last'.node = routed[<<lb_last'.tenant, lb_last'.key>>].node]_vars

\* a pair was routed twice among two healthy nodes, with connections acquired
C14_Witness ==
    /\ lb_last.op = "get_node"
    /\ algorithm = "consistent_hash"
    /\ routed[<<lb_last.tenant, lb_last.key>>].calls >= 2
    /\ lb_last.node = "redis-2"
    /\ HealthySet(node_health) = {"redis-1", "redis-2"}
    /\ nodes["redis-1"].current_connections > 0

HighLoad(metrics) ==
    \/ metrics.cpu_usage_percent > scale_up_threshold
    \/ metrics.memory_usage_percent > scale_up_threshold
    \/ metrics.requests_per_second > base_threshold * current_nodes

\* C15: every scaling decision executed with success, from the decision rule or
\* from force_scale, has min_nodes <= target_nodes <= max_nodes, and the cooldown of
\* its direction had elapsed when the decision was made.
C15_SuccessfulDecisionInBoundsAfterCooldown ==
    [][(/\ scaler_last'.op \in {"_scaling_agent_loop", "force_scale"}
        /\ scaler_last'.decision # NoDecision
        /\ scaler_last'.ok)
       => LET decision == scaler_last'.decision
          IN  /\ min_nodes <= decision.target_nodes
              /\ decision.target_nodes <= max_nodes
              /\ IF decision.decision_type = "scale_up"
                 THEN wall_clock - last_scale_up >= scale_up_cooldown
                 ELSE wall_clock - last_scale_down >= scale_down_cooldown]_vars

DuplicateWindow == 60

\* two alerts are equivalent when they report the same condition of the same source
Equivalent(a, b) == a.source = b.source /\ a.category = b.category /\ a.title = b.title

\* C17: a threshold-crossing sample adds no alert that is equivalent to an
\* unresolved alert of the same source created less than 60 s earlier.
C17_DuplicateAlertSuppressed ==
    [][monitor_last'.op = "_system_monitor" =>
          \A i \in (DOMAIN alerts') \ (DOMAIN alerts) :
              ~\E j \in DOMAIN alerts :
                   /\ Equivalent(alerts[j], alerts'[i])
                   /\ ~alerts[j].resolved
                   /\ alerts'[i].created_at - alerts[j].created_at < DuplicateWindow]_vars

\* C18: acknowledge_alert(id) and resolve_alert(id) return True and set the flag and
\* its timestamp on every alert of the log that has the id, and return False and
\* change no alert when no alert has the id; no step takes an acknowledged or
\* resolved flag back.
C18_AlertLifecycle ==
    [][/\ monitor_last'.op = "acknowledge_alert" =>
              IF \E i \in DOMAIN alerts : alerts[i].id = monitor_last'.alert_id
              THEN /\ monitor_last'.ok
                   /\ \A i \in DOMAIN alerts :
                          alerts[i].id = monitor_last'.alert_id
                              => /\ alerts'[i].acknowledged
                                 /\ alerts'[i].acknowledged_at = wall_clock
              ELSE ~monitor_last'.ok /\ alerts' = alerts
       /\ monitor_last'.op = "resolve_alert" =>
              IF \E i \in DOMAIN alerts : alerts[i].id = monitor_last'.alert_id
              THEN /\ monitor_last'.ok
                   /\ \A i \in DOMAIN alerts :
                          alerts[i].id = monitor_last'.alert_id
                              => /\ alerts'[i].resolved
                                 /\ alerts'[i].resolved_at = wall_clock
              ELSE ~monitor_last'.ok /\ alerts' = alerts
       /\ \A i \in DOMAIN alerts :
              /\ i \in DOMAIN alerts'
              /\ alerts[i].acknowledged => alerts'[i].acknowledged
              /\ alerts[i].resolved => alerts'[i].resolved]_vars

\* the part of the store under the tenant's prefix cache:{tenant_id}:
KeySpace(store, tenant_id) ==
    {k \in DOMAIN store : IsPrefix(CachePrefix \o tenant_id \o <<":">>, k)}

\* C19: when restore_tenant_data has put a snapshot of backup_tenant_data back
\* into its tenant, the tenant's key space is the snapshot's: it holds exactly
\* the snapshot's keys, each with the snapshot's value and time to live, and no
\* key written after the backup.
C19_RestoreYieldsSnapshot ==
    (last.op = "restore_tenant_data" /\ last.ok) =>
        /\ KeySpace(redis, last.tenant) = DOMAIN backup.data
        /\ \A k \in DOMAIN backup.data :
               /\ Present(redis, k)
               /\ redis[k].value = backup.data[k].value
               /\ BackupItem(redis, k).ttl = backup.data[k].ttl

DataPlaneOps == {"get", "set", "delete", "exists", "expire", "ttl", "incr", "decr",
                 "mget", "mset"}

\* C20: no data-plane call (get, set, delete, exists, expire, ttl, incr, decr,
\* mget, mset) issues a Redis command for a tenant that does not exist or is
\* not active: each reaches the store only after the admission check passed.
C20_AdmissionBeforeBackend ==
    (last.op \in DataPlaneOps /\ last.reached_backend) =>
        /\ last.admitted
        /\ last.tenant \in DOMAIN tenants
        /\ tenants[last.tenant].status = "active"

\* C21: when a set or mset for a tenant was in flight while delete_tenant ran for
\* the same tenant, then once both have returned (the delete with True) the
\* writer has reported failure and no key with prefix cache:{t}: is in the store.
C21_DeleteTenantDoesNotInterleave ==
    (/\ in_flight.writer.pc = "returned"
     /\ in_flight.deleter.pc = "returned"
     /\ in_flight.deleter.ok
     /\ in_flight.overlapped
     /\ in_flight.writer.tenant = in_flight.deleter.tenant) =>
        /\ ~in_flight.writer.ok
        /\ KeySpace(redis, in_flight.deleter.tenant) = {}

\* C22: every node id get_node returns names a node that is in the registry
\* with status online when the call is made (get_node has no await, so the
\* call is one instant), also when a health probe or a remove_node ran around
\* it; a removed or offline node is never selected.
C22_SelectedNodeRegisteredAndOnline ==
    (lb_last.op = "get_node" /\ lb_last.node # NoNode) =>
        /\ lb_last.node \in DOMAIN nodes
        /\ nodes[lb_last.node].status = "online"

ReferenceDecision(metrics, n) ==
    IF /\ n < max_nodes
       /\ \/ metrics.cpu_usage_percent >= scale_up_threshold
          \/ metrics.memory_usage_percent >= scale_up_threshold
          \/ metrics.requests_per_second >= base_threshold * n
    THEN [decision_type |-> "scale_up", target_nodes |-> Min(n + 1, max_nodes)]
    ELSE IF /\ n > min_nodes
            /\ metrics.cpu_usage_percent < scale_down_threshold
            /\ metrics.memory_usage_percent < scale_down_threshold
            /\ metrics.requests_per_second * 2 < base_threshold * n
    THEN [decision_type |-> "scale_down", target_nodes |-> Max(n - 1, min_nodes)]
    ELSE [decision_type |-> "none", target_nodes |-> 0]

\* C24: a decision cycle that runs outside both cooldowns decides what the
\* reference rule decides for the same metrics and node count: the same
\* direction (or none) and the same target.
C24_AgreesWithReferenceRule ==
    (/\ scaler_last.op = "_scaling_agent_loop"
     /\ scaler_last.since_scale_up >= scale_up_cooldown
     /\ scaler_last.since_scale_down >= scale_down_cooldown) =>
        LET decision == scaler_last.decision
            n == IF decision = NoDecision THEN current_nodes ELSE decision.current_nodes
            reference == ReferenceDecision(scaler_last.metrics, n)
        IN  /\ decision.decision_type = reference.decision_type
            /\ decision.target_nodes = reference.target_nodes

\* C25: a scaling execution whose scale-up or scale-down step fails is added to
\* the history with successful = false and leaves current_nodes, last_scale_up
\* and last_scale_down as they were.
C25_FailedExecutionChangesNothing ==
    [][(/\ scaler_last'.op \in {"_scaling_agent_loop", "force_scale"}
        /\ scaler_last'.decision # NoDecision
        /\ ~scaler_last'.ok)
       => /\ current_nodes' = current_nodes
          /\ last_scale_up' = last_scale_up
          /\ last_scale_down' = last_scale_down
          /\ scaling_decisions' # <<>>
          /\ ~scaling_decisions'[Len(scaling_decisions')].successful]_vars

\* C26: every data-plane call made for an existing tenant, also one that the
\* memory-quota or rate-limit check rejects, adds exactly 1 to the tenant's
\* total_requests and exactly 1 to one of successful_requests and failed_requests.
C26_EveryAttemptCounted ==
    [][(last'.op \in DataPlaneOps /\ last'.tenant \in DOMAIN tenants)
       => LET before == tenant_metrics[last'.tenant]
              after == tenant_metrics'[last'.tenant]
          IN  /\ after.total_requests = before.total_requests + 1
              /\ after.successful_requests >= before.successful_requests
              /\ after.failed_requests >= before.failed_requests
              /\ after.successful_requests + after.failed_requests
                     = before.successful_requests + before.failed_requests + 1]_vars

\* C27: record_request for a node of the registry appends the elapsed time to
\* the node's response times (keeping the newest 1000), adds 1 to its request
\* counter, and changes neither the node's current_connections nor anything of
\* another node.
C27_RecordRequestFrame ==
    [][(lb_last'.op = "record_request" /\ lb_last'.ok)
       => LET n == lb_last'.node
          IN  /\ request_counters'[n] = request_counters[n] + 1
              /\ Len(response_times'[n]) <= 1000
              /\ nodes'[n].current_connections = nodes[n].current_connections
              /\ \A m \in DOMAIN nodes \ {n} :
                     /\ nodes'[m] = nodes[m]
                     /\ request_counters'[m] = request_counters[m]
                     /\ (m \in DOMAIN response_times
                            => response_times'[m] = response_times[m])]_vars

\* the place of a node id in the order of ids
IdRank(node_id) == IF node_id = "redis-1" THEN 1 ELSE 2

\* C28: least_connections selection returns a healthy node with the fewest
\* current_connections, and among the healthy nodes with that fewest number
\* the one with the smallest id, whatever the order in which nodes were added.
C28_LeastConnectionsTieById ==
    (lb_last.op = "get_node" /\ algorithm = "least_connections" /\ lb_last.node # NoNode) =>
        /\ lb_last.node \in HealthySet(node_health)
        /\ \A m \in HealthySet(node_health) :
               \/ nodes[m].current_connections > nodes[lb_last.node].current_connections
               \/ /\ nodes[m].current_connections = nodes[lb_last.node].current_connections
                  /\ IdRank(lb_last.node) <= IdRank(m)

\* C29: remove_node drops a node's record only when the node's
\* current_connections is 0 or 30 seconds have passed since the drain began;
\* until then the record stays in the registry.
C29_RemoveAfterDrain ==
    [][\A n \in DOMAIN nodes :
          n \notin DOMAIN nodes'
             => \/ nodes[n].current_connections = 0
                \/ /\ in_flight.drain.node = n
                   /\ wall_clock - in_flight.drain.start_time >= max_wait_time]_vars

\* a node was dropped with connections still open, 30 seconds after its drain began
C29_Witness ==
    /\ in_flight.drain.pc = "returned"
    /\ in_flight.drain.left > 0
    /\ in_flight.drain.node \notin DOMAIN nodes
    /\ wall_clock - in_flight.drain.start_time >= max_wait_time

\* C30: a pass of the alert manager resolves every info alert that is unresolved
\* more than one hour after its creation: resolved is set and resolved_at is
\* the time of the pass.
C30_InfoAlertsAutoResolve ==
    [][monitor_last'.op = "_alert_manager"
          => \A i \in DOMAIN alerts :
                 (/\ alerts[i].severity = "info"
                  /\ ~alerts[i].resolved
                  /\ wall_clock - alerts[i].created_at > 3600)
                     => /\ alerts'[i].resolved
                        /\ alerts'[i].resolved_at = wall_clock]_vars

Reverse(seq) == [i \in DOMAIN seq |-> seq[Len(seq) + 1 - i]]

\* C31: when stop has returned, it has put the agent loops to rest in the
\* reverse of the order in which they were started, then the health monitor, the
\* load balancer and the auto-scaler; every agent is stopped and agent_tasks is
\* empty.
C31_StopInLifoOrder ==
    orchestrator.last.op \in {"stop", "shutdown"}
        => /\ orchestrator.stopped \in {ComponentStops, Reverse(AgentIds) \o ComponentStops}
           /\ \A a \in AgentSet : orchestrator.agents[a] = "stopped"
           /\ orchestrator.agent_tasks = <<>>

\* the tasks of a loop that have not ended
Alive(loop) ==
    {t \in DOMAIN orchestrator.tasks :
        orchestrator.tasks[t].loop = loop /\ orchestrator.tasks[t].state # "done"}

\* C32: whenever the orchestrator is running, a task of its system-status loop
\* is alive.
C32_StatusLoopAlive == orchestrator.running => Alive("_system_monitor") # {}

\* C33: once shutdown has returned, every background loop of the platform
\* eventually ends.
C33_LoopsTerminate ==
    orchestrator.shut_down
        ~> (\A t \in DOMAIN orchestrator.tasks : orchestrator.tasks[t].state = "done")

\* C39: at most one loop task per agent is alive.
C39_OneLoopPerAgent == \A a \in AgentSet : Cardinality(Alive(a)) <= 1

\* C34: a step taken by an agent changes neither the tenant table, nor the
\* per-tenant metric records, nor the alert log, nor the system-health table.
C34_SingleWriter ==
    [][(orchestrator' # orchestrator /\ orchestrator'.last.op \in AgentOps)
          => UNCHANGED <<tenants, tenant_metrics, alerts, system_health>>]_vars

\* the bytes of the values stored under the keys ks
RECURSIVE StoredBytes(_, _)
StoredBytes(store, ks) ==
    IF ks = {} THEN 0
    ELSE LET k == CHOOSE x \in ks : TRUE
         IN  store[k].value.bytes + StoredBytes(store, ks \ {k})

\* C35: for every tenant, memory_used_mb is the total encoded size of the keys
\* currently stored for the tenant.
C35_MemoryMatchesStoredKeys ==
    \A t \in DOMAIN tenants \cap DOMAIN tenant_metrics :
        MemoryUsed(t) = StoredBytes(redis, KeySpace(redis, t))

\* C36: the node count stays within the configured bounds, and the bounds are
\* ordered: min_nodes <= current_nodes <= max_nodes.
C36_NodesWithinBounds ==
    /\ scaling_config.min_nodes <= current_nodes
    /\ current_nodes <= scaling_config.max_nodes
    /\ scaling_config.min_nodes <= scaling_config.max_nodes

\* C37: no two alerts of the log share an id.
C37_AlertIdsUnique ==
    \A i, j \in DOMAIN alerts : i # j => alerts[i].id # alerts[j].id

\* C38: a remove_node that returns False leaves nodes, node_health and
\* request_counters as they were; one that returns True leaves the node in none
\* of them.
C38_RemoveNodeAtomic ==
    [][lb_last'.op = "remove_node"
          => IF lb_last'.ok
             THEN /\ lb_last'.node \notin DOMAIN nodes'
                  /\ lb_last'.node \notin DictKeys(node_health')
                  /\ lb_last'.node \notin DOMAIN request_counters'
             ELSE UNCHANGED <<nodes, node_health, request_counters>>]_vars

\* the keys of a tenant with what they hold
Contents(store, tenant_id) == [k \in KeySpace(store, tenant_id) |-> store[k]]

\* C40: a restore_tenant_data that returns False leaves the tenant's key space
\* and the metrics as they were before the call.
C40_RestoreAllOrNothing ==
    [][(last' # last /\ last'.op = "restore_tenant_data" /\ ~last'.ok)
          => /\ Contents(redis', last'.tenant) = Contents(redis, last'.tenant)
             /\ tenant_metrics' = tenant_metrics]_vars
====
